---- MODULE Spec2Model ----
(***************************************************************************)
(* Model of the kkumtl novel-writer: the contenteditable formatter         *)
(* (FormatterModule), the generation handlers of the main application      *)
(* module, the Gemini streaming client, the rate limiter and the undo/redo *)
(* history.                                                                 *)
(*                                                                         *)
(* Text is a sequence of one-character strings.  An HTML string is a       *)
(* sequence of tokens: a character (escaped where HTML requires it) or a   *)
(* tag.  The editor element is the sequence of its descendant nodes in     *)
(* document order, written as records [t, s]: a text node carries its data *)
(* in s; "dialogue", "thoughts", "emphasis" open a span and "close" closes *)
(* it; "br" is a line break; "img" is the contentEditable=false image      *)
(* container, whose delete button holds the one-character text node s.     *)
(***************************************************************************)
EXTENDS Integers, Sequences, FiniteSets, TLC

\* ------------------------------------------------------------------ bounds
MaxFmtLen == 3
MaxDocLen == 4
MaxSteps == 7
MaxOvershoot == 2
MaxHistorySteps == 3
MaxCleanLen == 4
MaxPrefillLen == 3
MaxNovelSteps == 10
MaxNovelLen == 2
MaxNovelDoc == 5
MaxSettingsKeys == 2

\* ------------------------------------------------------------- characters
DQ == "\""
SQ == "'"
AST == "*"
SP == " "
LT == "<"
ZWSP == "u200B"
TIMES == "x"

\* tag tokens of an HTML string
TagDialogue == "<span class=dialogue>"
TagThoughts == "<span class=thoughts>"
TagEmphasis == "<span class=emphasis>"
TagClose == "</span>"
TagBr == "<br>"
TagImg == "<div class=novel-image-container>"

FmtAlphabet == {"a", SP, DQ, SQ, AST, LT}

RECURSIVE SeqsUpTo(_, _)
SeqsUpTo(S, n) ==
    IF n = 0 THEN {<< >>}
    ELSE LET shorter == SeqsUpTo(S, n - 1)
         IN shorter \cup {Append(s, c) : s \in {x \in shorter : Len(x) = n - 1}, c \in S}

\* --------------------------------------------------------------- DOM nodes
TextNode(s) == [t |-> "text", s |-> s]
SpanOpen(cls) == [t |-> cls, s |-> << >>]
SpanClose == [t |-> "close", s |-> << >>]
BrNode == [t |-> "br", s |-> << >>]
ImgNode == [t |-> "img", s |-> <<TIMES>>]

IsTextual(n) == n.t \in {"text", "img"}

RECURSIVE textContent(_)
textContent(dom) ==
    IF dom = << >> THEN << >> ELSE Head(dom).s \o textContent(Tail(dom))

\* element.textContent = text
SetTextContent(text) == IF text = << >> THEN << >> ELSE <<TextNode(text)>>

getPlainText(dom) == textContent(dom)

\* ------------------------------------------------------------- escapeHtml
EscChar(c) == IF c = LT THEN "&lt;" ELSE c
UnescChar(k) == IF k = "&lt;" THEN LT ELSE k

escapeHtml(text) == [i \in 1..Len(text) |-> EscChar(text[i])]

\* index of the first d after position i in h, 0 when there is none
NextIdx(h, i, d) ==
    LET later == {j \in (i + 1)..Len(h) : h[j] = d}
    IN IF later = {} THEN 0 ELSE CHOOSE j \in later : \A k \in later : j <= k

IsSpace(k) == k \in {SP, "\n"}

\* formattedHtml.replace(/"([^"]+)"/g, <span class="dialogue">"$1"</span>)
RECURSIVE ReplaceDialogue(_, _)
ReplaceDialogue(h, i) ==
    IF i > Len(h) THEN << >>
    ELSE LET j == NextIdx(h, i, DQ)
         IN IF h[i] = DQ /\ j > i + 1
            THEN <<TagDialogue>> \o SubSeq(h, i, j) \o <<TagClose>> \o ReplaceDialogue(h, j + 1)
            ELSE <<h[i]>> \o ReplaceDialogue(h, i + 1)

\* formattedHtml.replace(/(^|[\s])'([^']+)'/g, $1<span class="thoughts">'$2'</span>)
RECURSIVE ReplaceThoughts(_, _)
ReplaceThoughts(h, i) ==
    IF i > Len(h) THEN << >>
    ELSE LET j0 == NextIdx(h, i, SQ)
             j1 == IF i < Len(h) THEN NextIdx(h, i + 1, SQ) ELSE 0
         IN IF i = 1 /\ h[i] = SQ /\ j0 > i + 1
            THEN <<TagThoughts>> \o SubSeq(h, i, j0) \o <<TagClose>> \o ReplaceThoughts(h, j0 + 1)
            ELSE IF IsSpace(h[i]) /\ i < Len(h) /\ h[i + 1] = SQ /\ j1 > i + 2
            THEN <<h[i], TagThoughts>> \o SubSeq(h, i + 1, j1) \o <<TagClose>>
                     \o ReplaceThoughts(h, j1 + 1)
            ELSE <<h[i]>> \o ReplaceThoughts(h, i + 1)

\* formattedHtml.replace(/\*([^*]+)\*/g, <span class="emphasis">$1</span>)
RECURSIVE ReplaceEmphasis(_, _)
ReplaceEmphasis(h, i) ==
    IF i > Len(h) THEN << >>
    ELSE LET j == NextIdx(h, i, AST)
         IN IF h[i] = AST /\ j > i + 1
            THEN <<TagEmphasis>> \o SubSeq(h, i + 1, j - 1) \o <<TagClose>>
                     \o ReplaceEmphasis(h, j + 1)
            ELSE <<h[i]>> \o ReplaceEmphasis(h, i + 1)

FormatHtml(text) ==
    ReplaceEmphasis(ReplaceThoughts(ReplaceDialogue(escapeHtml(text), 1), 1), 1)

\* the earlier applyRealtimeFormatting: its dialogue and thoughts patterns
\* look for the entities &quot; and &#39;, which escapeHtml never writes (a
\* typed & becomes &amp;), so only the emphasis pass replaces anything
FormatHtml_part004(text) == ReplaceEmphasis(escapeHtml(text), 1)

\* ------------------------------------------------- innerHTML getter/setter
IsTag(k) == k \in {TagDialogue, TagThoughts, TagEmphasis, TagClose, TagBr, TagImg}

TagNode(k) ==
    CASE k = TagDialogue -> SpanOpen("dialogue")
      [] k = TagThoughts -> SpanOpen("thoughts")
      [] k = TagEmphasis -> SpanOpen("emphasis")
      [] k = TagClose -> SpanClose
      [] k = TagBr -> BrNode
      [] OTHER -> ImgNode

NodeTag(n) ==
    CASE n.t = "dialogue" -> TagDialogue
      [] n.t = "thoughts" -> TagThoughts
      [] n.t = "emphasis" -> TagEmphasis
      [] n.t = "close" -> TagClose
      [] n.t = "br" -> TagBr
      [] OTHER -> TagImg

\* the HTML parser: a run of character tokens becomes one text node
RECURSIVE ParseHtml(_, _)
ParseHtml(h, acc) ==
    IF h = << >> THEN (IF acc = << >> THEN << >> ELSE <<TextNode(acc)>>)
    ELSE IF IsTag(Head(h))
         THEN (IF acc = << >> THEN << >> ELSE <<TextNode(acc)>>)
                  \o <<TagNode(Head(h))>> \o ParseHtml(Tail(h), << >>)
         ELSE ParseHtml(Tail(h), Append(acc, UnescChar(Head(h))))

SetInnerHTML(h) == ParseHtml(h, << >>)

RECURSIVE innerHTML(_)
innerHTML(dom) ==
    IF dom = << >> THEN << >>
    ELSE (IF Head(dom).t = "text" THEN escapeHtml(Head(dom).s) ELSE <<NodeTag(Head(dom))>>)
             \o innerHTML(Tail(dom))

\* ------------------------------------------------- selection and the caret
\* A selection is one range [sc, so, ec, eo].  A boundary container is the
\* index of a textual node of the editor (offset: characters), 0 for the
\* editor element itself (offset: child index), or DocNode for the document,
\* where document.createRange() starts.  NoSel: rangeCount = 0.
DocNode == 0 - 1
NoneNode == 0 - 2
NoSel == [sc |-> NoneNode, so |-> 0, ec |-> NoneNode, eo |-> 0]
Range(sc, so, ec, eo) == [sc |-> sc, so |-> so, ec |-> ec, eo |-> eo]
Caret(c, o) == Range(c, o, c, o)
NullPos == [start |-> 0 - 1, end |-> 0 - 1]
Pos(s, e) == [start |-> s, end |-> e]

Min(a, b) == IF a < b THEN a ELSE b

\* index in dom of the first node of the k-th child of the editor element
RECURSIVE ChildStart(_, _, _, _, _)
ChildStart(dom, k, i, depth, n) ==
    IF i > Len(dom) THEN Len(dom) + 1
    ELSE IF depth = 0 /\ n = k THEN i
    ELSE ChildStart(dom, k, i + 1,
                    IF dom[i].t \in {"dialogue", "thoughts", "emphasis"} THEN depth + 1
                    ELSE IF dom[i].t = "close" THEN depth - 1 ELSE depth,
                    IF depth = 0 THEN n + 1 ELSE n)

\* number of characters of the editor's text that precede a boundary point
PointOffset(dom, c, o) ==
    IF c = DocNode THEN 0
    ELSE IF c = 0 THEN Len(textContent(SubSeq(dom, 1, ChildStart(dom, o, 1, 0, 0) - 1)))
    ELSE Len(textContent(SubSeq(dom, 1, c - 1))) + o

saveCursorPosition(dom, sel) ==
    IF sel = NoSel THEN NullPos
    ELSE LET start == PointOffset(dom, sel.sc, sel.so)
             endp == PointOffset(dom, sel.ec, sel.eo)
         IN Pos(start, start + (endp - start))

\* a variant of the walk in which a node's end does not belong to the node:
\* a position at the very end of the text is never found
RECURSIVE RestoreWalkEndExcluded(_, _, _, _, _, _, _)
RestoreWalkEndExcluded(dom, i, charIndex, foundStart, rng, safeStart, safeEnd) ==
    IF i > Len(dom) THEN rng
    ELSE IF ~IsTextual(dom[i])
         THEN RestoreWalkEndExcluded(dom, i + 1, charIndex, foundStart, rng, safeStart, safeEnd)
         ELSE LET nextCharIndex == charIndex + Len(dom[i].s)
                  hitStart == ~foundStart /\ safeStart >= charIndex /\ safeStart < nextCharIndex
                  found1 == foundStart \/ hitStart
                  rng1 == IF hitStart THEN Caret(i, safeStart - charIndex) ELSE rng
                  hitEnd == found1 /\ safeEnd >= charIndex /\ safeEnd < nextCharIndex
                  rng2 == IF ~hitEnd THEN rng1
                          ELSE Range(rng1.sc, rng1.so, i, safeEnd - charIndex)
              IN IF hitEnd THEN rng2
                 ELSE RestoreWalkEndExcluded(dom, i + 1, nextCharIndex, found1, rng2,
                                             safeStart, safeEnd)

\* the node walk of restoreCursorPosition, from node i on
RECURSIVE RestoreWalk(_, _, _, _, _, _, _)
RestoreWalk(dom, i, charIndex, foundStart, rng, safeStart, safeEnd) ==
    IF i > Len(dom) THEN rng
    ELSE IF ~IsTextual(dom[i])
         THEN RestoreWalk(dom, i + 1, charIndex, foundStart, rng, safeStart, safeEnd)
         ELSE LET nextCharIndex == charIndex + Len(dom[i].s)
                  hitStart == ~foundStart /\ safeStart >= charIndex /\ safeStart <= nextCharIndex
                  found1 == foundStart \/ hitStart
                  so1 == Min(safeStart - charIndex, Len(dom[i].s))
                  \* range.setStart: an end that lies before the new start follows it
                  rng1 == IF hitStart THEN Caret(i, so1) ELSE rng
                  hitEnd == found1 /\ safeEnd >= charIndex /\ safeEnd <= nextCharIndex
                  eo1 == Min(safeEnd - charIndex, Len(dom[i].s))
                  \* range.setEnd: a start that lies after the new end follows it
                  rng2 == IF ~hitEnd THEN rng1
                          ELSE IF rng1.sc = i /\ rng1.so > eo1 THEN Caret(i, eo1)
                          ELSE Range(rng1.sc, rng1.so, i, eo1)
              IN IF hitEnd THEN rng2
                 ELSE RestoreWalk(dom, i + 1, nextCharIndex, found1, rng2, safeStart, safeEnd)

restoreCursorPosition(dom, sel, savedPosition) ==
    IF savedPosition = NullPos THEN sel
    ELSE LET totalLength == Len(textContent(dom))
             safeStart == Min(savedPosition.start, totalLength)
             safeEnd == Min(savedPosition.end, totalLength)
         IN RestoreWalk(dom, 1, 0, FALSE, Caret(DocNode, 0), safeStart, safeEnd)

\* restoreCursorPosition of the earlier formatter: the same walk, with the
\* saved offsets as they come
restoreCursorPosition_part004(dom, sel, savedPosition) ==
    IF savedPosition = NullPos THEN sel
    ELSE RestoreWalk(dom, 1, 0, FALSE, Caret(DocNode, 0),
                     savedPosition.start, savedPosition.end)

\* live ranges when every child of the editor is replaced: a boundary inside
\* the editor moves to (editor, 0)
DomReplaced(sel) ==
    IF sel = NoSel THEN NoSel
    ELSE Range(IF sel.sc >= 0 THEN 0 ELSE sel.sc, IF sel.sc >= 0 THEN 0 ELSE sel.so,
               IF sel.ec >= 0 THEN 0 ELSE sel.ec, IF sel.ec >= 0 THEN 0 ELSE sel.eo)

Surface(dom, sel) == [dom |-> dom, sel |-> sel]

applyRealtimeFormatting(dom, sel) ==
    LET cursorPos == saveCursorPosition(dom, sel)
        text == textContent(dom)
        formattedHtml == FormatHtml(text)
    IN IF innerHTML(dom) # formattedHtml
       THEN LET dom1 == SetInnerHTML(formattedHtml)
            IN Surface(dom1, restoreCursorPosition(dom1, DomReplaced(sel), cursorPos))
       ELSE Surface(dom, sel)

setPlainText(dom, sel, text) ==
    LET cursorPos == saveCursorPosition(dom, sel)
        r == applyRealtimeFormatting(SetTextContent(text), DomReplaced(sel))
    IN IF cursorPos # NullPos
       THEN Surface(r.dom, restoreCursorPosition(r.dom, r.sel, cursorPos))
       ELSE r

getCursorOffset(dom, sel) ==
    LET pos == saveCursorPosition(dom, sel)
    IN IF pos # NullPos THEN pos.start ELSE 0

setCursorOffset(dom, sel, offset) == restoreCursorPosition(dom, sel, Pos(offset, offset))


\* ------------------------------------------------------------ DOM editing
\* Range.insertNode for each node of a list, the last one first, at the start
\* of the range: a Text start node is split at the start offset by every
\* call, the tail of the first split keeping the data after the offset
RECURSIVE InsertNodes(_, _, _, _)
InsertNodes(dom, c, o, nodes) ==
    IF nodes = << >> THEN dom
    ELSE LET node == nodes[Len(nodes)]
             rest == SubSeq(nodes, 1, Len(nodes) - 1)
         IN IF c > 0
            THEN LET head == TextNode(SubSeq(dom[c].s, 1, o))
                     tail == TextNode(SubSeq(dom[c].s, o + 1, Len(dom[c].s)))
                     dom1 == SubSeq(dom, 1, c - 1) \o <<head, node, tail>>
                                 \o SubSeq(dom, c + 1, Len(dom))
                 IN InsertNodes(dom1, c, o, rest)
            ELSE LET at == ChildStart(dom, o, 1, 0, 0)
                     dom1 == SubSeq(dom, 1, at - 1) \o <<node>> \o SubSeq(dom, at, Len(dom))
                 IN InsertNodes(dom1, c, o, rest)

\* index of the last node of a list put in by InsertNodes at (c, o)
InsertedLast(dom, c, o, nodes) ==
    IF c > 0 THEN c + 2 * Len(nodes) - 1
    ELSE ChildStart(dom, o, 1, 0, 0) + Len(nodes) - 1

ImageCount(dom) == Cardinality({i \in 1..Len(dom) : dom[i].t = "img"})

\* editor.focus(): the caret goes to the start of the content
FocusCaret(dom) ==
    IF dom # << >> /\ dom[1].t = "text" THEN Caret(1, 0) ELSE Caret(0, 0)

\* String.prototype.trim() leaves nothing
TrimEmpty(text) == \A i \in 1..Len(text) : IsSpace(text[i])

\* ---------------------------------------------------------- RateLimitModule
MAX_GENERATIONS_PER_IP == 10
MAX_IMAGE_GENERATIONS == 1
MAX_INPUT_CHARS == 3

\* a variant of the limit check that still admits a count equal to the limit
canGenerateOffByOne(rl) ==
    IF rl.isAdmin THEN TRUE
    ELSE IF rl.generationCount > MAX_GENERATIONS_PER_IP THEN FALSE
    ELSE TRUE

canGenerate(rl) ==
    IF rl.isAdmin THEN TRUE
    ELSE IF rl.generationCount >= MAX_GENERATIONS_PER_IP THEN FALSE
    ELSE TRUE

\* Infinity is what getRemainingGenerations returns for an admin
Infinity == "Infinity"

getRemainingGenerations(rl) ==
    IF rl.isAdmin THEN Infinity
    ELSE IF MAX_GENERATIONS_PER_IP - rl.generationCount > 0
         THEN MAX_GENERATIONS_PER_IP - rl.generationCount
         ELSE 0

canGenerateImage(rl) == rl.isAdmin \/ rl.imageGenerationCount < MAX_IMAGE_GENERATIONS

checkInputTokenLimit(rl, text) == rl.isAdmin \/ Len(text) <= MAX_INPUT_CHARS

\* ------------------------------------------------------------ StorageModule
MAX_HISTORY_SIZE == 50

History(u, r) == [undo |-> u, redo |-> r]

\* a variant of pushHistory that leaves the redo stack as it is
pushHistoryKeepsRedo(h, content) ==
    IF Len(h.undo) > 0 /\ h.undo[Len(h.undo)] = content THEN h
    ELSE LET pushed == Append(h.undo, content)
         IN History(IF Len(pushed) > MAX_HISTORY_SIZE THEN Tail(pushed) ELSE pushed, h.redo)

\* a variant of pushHistory that drops the newest snapshot when the stack is full
pushHistoryEvictsNewest(h, content) ==
    IF Len(h.undo) > 0 /\ h.undo[Len(h.undo)] = content THEN h
    ELSE LET pushed == Append(h.undo, content)
         IN History(IF Len(pushed) > MAX_HISTORY_SIZE
                    THEN SubSeq(h.undo, 1, MAX_HISTORY_SIZE - 1) \o <<content>>
                    ELSE pushed, << >>)

pushHistory(h, content) ==
    IF Len(h.undo) > 0 /\ h.undo[Len(h.undo)] = content THEN h
    ELSE LET pushed == Append(h.undo, content)
         IN History(IF Len(pushed) > MAX_HISTORY_SIZE THEN Tail(pushed) ELSE pushed, << >>)

\* undo and redo return the content to show, or NoContent for null
NoContent == <<"null">>

undoResult(h) == IF Len(h.undo) = 0 THEN NoContent ELSE h.undo[Len(h.undo)]

\* a variant of undo that does not keep the current content for redo
undoForgetsCurrent(h, currentContent) ==
    IF Len(h.undo) = 0 THEN h
    ELSE History(SubSeq(h.undo, 1, Len(h.undo) - 1), h.redo)

undo(h, currentContent) ==
    IF Len(h.undo) = 0 THEN h
    ELSE History(SubSeq(h.undo, 1, Len(h.undo) - 1), Append(h.redo, currentContent))

redoResult(h) == IF Len(h.redo) = 0 THEN NoContent ELSE h.redo[Len(h.redo)]

redo(h, currentContent) ==
    IF Len(h.redo) = 0 THEN h
    ELSE History(Append(h.undo, currentContent), SubSeq(h.redo, 1, Len(h.redo) - 1))


\* -------------------------------------------- GeminiModule: cleanup passes
PERIOD == "."
BANG == "!"
QUESTION == "?"
COMMA == ","
\* the em dash (U+2014) as one character, written in ASCII
EMDASH == "--"

\* String.prototype.trimStart, trimEnd and trim
RECURSIVE trimStart(_)
trimStart(text) ==
    IF text # << >> /\ IsSpace(Head(text)) THEN trimStart(Tail(text)) ELSE text

RECURSIVE trimEnd(_)
trimEnd(text) ==
    IF text # << >> /\ IsSpace(text[Len(text)])
    THEN trimEnd(SubSeq(text, 1, Len(text) - 1))
    ELSE text

trim(text) == trimEnd(trimStart(text))

\* String.prototype.startsWith
startsWith(text, prefix) ==
    Len(prefix) <= Len(text) /\ SubSeq(text, 1, Len(prefix)) = prefix

\* String.prototype.substring(from) and substring(0, to), indexes from 0
substringFrom(text, from) == SubSeq(text, from + 1, Len(text))
substringTo(text, to) == SubSeq(text, 1, to)

\* the longest overlap stripPrefill looks for
OVERLAP_LIMIT == 50

\* a variant of the overlap loop that counts up: the shortest overlap wins
RECURSIVE StripOverlapShortestFirst(_, _, _, _)
StripOverlapShortestFirst(generated, trimmedGenerated, trimmedPrefill, i) ==
    LET first == Min(Len(trimmedPrefill), OVERLAP_LIMIT) + 1 - i
    IN IF i <= 0 THEN generated
       ELSE IF startsWith(trimmedGenerated,
                          substringFrom(trimmedPrefill, Len(trimmedPrefill) - first))
       THEN trimStart(substringFrom(trimmedGenerated, first))
       ELSE StripOverlapShortestFirst(generated, trimmedGenerated, trimmedPrefill, i - 1)

\* the for-loop of stripPrefill, from overlap length i down to 1
RECURSIVE StripOverlap(_, _, _, _)
StripOverlap(generated, trimmedGenerated, trimmedPrefill, i) ==
    IF i <= 0 THEN generated
    ELSE IF startsWith(trimmedGenerated,
                       substringFrom(trimmedPrefill, Len(trimmedPrefill) - i))
    THEN trimStart(substringFrom(trimmedGenerated, i))
    ELSE StripOverlap(generated, trimmedGenerated, trimmedPrefill, i - 1)

stripPrefill(generated, prefill) ==
    IF prefill = << >> \/ generated = << >> THEN generated
    ELSE LET trimmedGenerated == trimStart(generated)
             trimmedPrefill == trim(prefill)
         IN IF startsWith(trimmedGenerated, trimmedPrefill)
            THEN trimStart(substringFrom(trimmedGenerated, Len(trimmedPrefill)))
            ELSE StripOverlap(generated, trimmedGenerated, trimmedPrefill,
                              Min(Len(trimmedPrefill), OVERLAP_LIMIT))

\* String.prototype.lastIndexOf for a character of the set cs, searching
\* back from index from (indexes from 0; a negative from counts as 0); -1
\* when there is none
lastIndexOf(text, cs, from) ==
    LET limit == IF from < 0 THEN 0 ELSE Min(from, Len(text) - 1)
        found == {i \in 0..limit : i < Len(text) /\ text[i + 1] \in cs}
    IN IF found = {} THEN 0 - 1 ELSE CHOOSE i \in found : \A j \in found : j <= i

IsTerminal(c) == c \in {PERIOD, BANG, QUESTION}
IsQuote(c) == c \in {DQ, SQ}
\* /[,;:\-\u2014]$/
IsSoftSeparator(c) == c \in {COMMA, ";", ":", "-", EMDASH}

\* /[.!?]["']?$/.test(text)
properEndings(text) ==
    LET n == Len(text)
    IN \/ n >= 1 /\ IsTerminal(text[n])
       \/ n >= 2 /\ IsQuote(text[n]) /\ IsTerminal(text[n - 1])

\* text.endsWith('...')
endsWithEllipsis(text) ==
    Len(text) >= 3 /\ SubSeq(text, Len(text) - 2, Len(text)) = <<PERIOD, PERIOD, PERIOD>>

ensureProperEnding(text) ==
    IF text = << >> \/ TrimEmpty(text) THEN text
    ELSE LET trimmed == trim(text)
             n == Len(trimmed)
             lastComplete == lastIndexOf(trimmed, {PERIOD, BANG, QUESTION}, n)
             endIndex == IF lastComplete + 1 < n /\ IsQuote(trimmed[lastComplete + 2])
                         THEN lastComplete + 2 ELSE lastComplete + 1
             lastQuote == lastIndexOf(trimmed, {DQ}, n)
             secondLastQuote == lastIndexOf(trimmed, {DQ}, lastQuote - 1)
         IN IF properEndings(trimmed) THEN trimmed
            ELSE IF endsWithEllipsis(trimmed) THEN trimmed
            ELSE IF IsSoftSeparator(trimmed[n]) /\ 2 * lastComplete > n
            THEN substringTo(trimmed, endIndex)
            ELSE IF lastQuote > secondLastQuote /\ lastQuote # n - 1
            THEN trimmed \o <<PERIOD, DQ>>
            ELSE trimmed \o <<PERIOD>>


\* ================================================================= state
VARIABLES
    editor,            \* elements.editorTextarea: its nodes in document order
    sel,               \* window.getSelection()
    apiKey,            \* GeminiModule: apiKey !== null
    appShown,          \* the password modal is hidden and the app container shown
    rlInit,            \* "none", "pending" (awaiting fetchUserIP) or "done"
    rl,                \* RateLimitModule state
    stored,            \* the count saved under the rate-limit storage key
    state,             \* application state: isGenerating, isGeneratingImage
    ui,                \* contentEditable, overlay and button visibility
    streamingToggle,   \* elements.streamingToggle.checked
    history,           \* StorageModule undoStack and redoStack
    timers,            \* pending debounce timeouts of the input listener
    currentController, \* GeminiModule.currentController: "null", "text", "image", "settled"
    gen,               \* the text request in flight
    imgOrphans,        \* image requests in flight that currentController no longer refers to
    steps,             \* handler runs since the page was loaded
    lastOp,            \* the handler that ran last
    calls,             \* the callbacks the last handler invoked, in order
    readLines,         \* the SSE lines the last stream read processed
    fmt,               \* the formatter harness: phase, input text, recorded values
    novelWriter,       \* the NovelWriter instance of app.js
    novelPage          \* app.js: the editor, the write button and the session in flight

vars == <<editor, sel, apiKey, appShown, rlInit, rl, stored, state, ui, streamingToggle,
          history, timers, currentController, gen, imgOrphans, steps, lastOp, calls,
          readLines, fmt, novelWriter, novelPage>>

surfaceVars == <<editor, sel>>
accountVars == <<apiKey, appShown, rlInit, rl, stored>>
sessionVars == <<currentController, gen, imgOrphans>>
novelVars == <<novelWriter, novelPage>>
appVars == <<apiKey, appShown, rlInit, rl, stored, state, ui, streamingToggle, history,
             timers, currentController, gen, imgOrphans, steps, lastOp, calls, readLines,
             novelVars>>

IdleGen == [pc |-> "idle", textBefore |-> << >>, textAfter |-> << >>,
            fullText |-> << >>, buffer |-> << >>]
IdleFmt == [pc |-> "off", text |-> << >>, html |-> << >>, pos |-> NullPos]

\* new NovelWriter(): no key, no history, nothing being written
NovelWriter == [apiKey |-> FALSE, history |-> << >>, currentContent |-> << >>,
                isWriting |-> FALSE, abortController |-> "null",
                protectedContent |-> << >>]

\* app.js after initialize() with nothing saved: an empty editor and key field,
\* the write button enabled, and no handleWrite call in flight
NovelPage == [novelEditor |-> << >>, apiKey |-> FALSE, writeBtnDisabled |-> FALSE,
              pc |-> "idle", currentContent |-> << >>, newText |-> << >>,
              generatedText |-> << >>, pending |-> << >>]

StoredCounts == {MAX_GENERATIONS_PER_IP - 1, MAX_GENERATIONS_PER_IP}

\* the page after init(): nothing saved in the browser but the rate-limit count
Init ==
    /\ editor = << >>
    /\ sel = NoSel
    /\ apiKey = FALSE
    /\ appShown = FALSE
    /\ rlInit = "none"
    /\ rl = [ip |-> "null", generationCount |-> 0, imageGenerationCount |-> 0,
             isAdmin |-> FALSE]
    /\ stored \in {[ip |-> "ip", count |-> n] : n \in StoredCounts}
    /\ state = [isGenerating |-> FALSE, isGeneratingImage |-> FALSE]
    /\ ui = [contentEditable |-> TRUE, overlayHidden |-> TRUE, btnGenerateHidden |-> FALSE,
             btnGenerateImageHidden |-> FALSE, btnStopHidden |-> TRUE]
    /\ streamingToggle = TRUE
    /\ history = History(<< >>, << >>)
    /\ timers = 0
    /\ currentController = "null"
    /\ gen = IdleGen
    /\ imgOrphans = 0
    /\ steps = 0
    /\ lastOp = "init"
    /\ calls = << >>
    /\ readLines = << >>
    /\ fmt = IdleFmt
    /\ novelWriter = NovelWriter
    /\ novelPage = NovelPage

\* every handler run is counted and named
Handler(op) ==
    /\ steps < MaxSteps
    /\ steps' = steps + 1
    /\ lastOp' = op

\* ------------------------------------------------------------ UI state
setGeneratingState(st, u, streaming, isGenerating) ==
    [state |-> [st EXCEPT !.isGenerating = isGenerating],
     ui |-> [contentEditable |-> IF ~streaming THEN ~isGenerating ELSE u.contentEditable,
             overlayHidden |-> IF ~streaming THEN ~isGenerating ELSE u.overlayHidden,
             btnGenerateHidden |-> isGenerating,
             btnGenerateImageHidden |-> isGenerating,
             btnStopHidden |-> ~isGenerating]]

setImageGeneratingState(st, u, isGenerating) ==
    [state |-> [st EXCEPT !.isGeneratingImage = isGenerating],
     ui |-> [contentEditable |-> ~isGenerating,
             overlayHidden |-> ~isGenerating,
             btnGenerateHidden |-> isGenerating,
             btnGenerateImageHidden |-> isGenerating,
             btnStopHidden |-> ~isGenerating]]

\* ------------------------------------------------------------ unlocking
\* handlePasswordSubmit up to the await of RateLimitModule.initialize
PasswordSubmit(admin) ==
    /\ rlInit = "none"
    /\ apiKey' = TRUE
    /\ rl' = [rl EXCEPT !.isAdmin = admin]
    /\ rlInit' = "pending"
    /\ Handler("handlePasswordSubmit")
    /\ calls' = << >>
    /\ readLines' = << >>
    /\ UNCHANGED <<surfaceVars, appShown, stored, state, ui, streamingToggle, history, timers,
                   sessionVars, fmt, novelVars>>

\* fetchUserIP resolves: loadGenerationCount, the app is shown, editor.focus()
RateLimitInitialized ==
    /\ rlInit = "pending"
    /\ rl' = [rl EXCEPT !.ip = "ip",
                        !.generationCount = IF stored.ip = "ip" THEN stored.count ELSE 0]
    /\ rlInit' = "done"
    /\ appShown' = TRUE
    /\ sel' = FocusCaret(editor)
    /\ Handler("initialize")
    /\ calls' = << >>
    /\ readLines' = << >>
    /\ UNCHANGED <<editor, apiKey, stored, state, ui, streamingToggle, history, timers,
                   sessionVars, fmt, novelVars>>

\* ------------------------------------------------------------ the user
CaretPoints(dom) ==
    LET texts == {i \in 1..Len(dom) : dom[i].t = "text"}
    IN IF texts = {} THEN {Caret(0, 0)}
       ELSE UNION {{Caret(i, o) : o \in 0..Len(dom[i].s)} : i \in texts}

\* a click in the editor puts the caret somewhere in its text
UserClick(r) ==
    /\ appShown
    /\ r # sel
    /\ sel' = r
    /\ Handler("click")
    /\ calls' = << >>
    /\ readLines' = << >>
    /\ UNCHANGED <<editor, accountVars, state, ui, streamingToggle, history, timers,
                   sessionVars, fmt, novelVars>>

TypedChars == {"a", AST}

\* the browser inserts a typed character at the caret
TypeAt(dom, r, c) ==
    IF r.sc = 0 THEN Surface(<<TextNode(<<c>>)>> \o dom, Caret(1, 1))
    ELSE Surface([dom EXCEPT ![r.sc].s = SubSeq(@, 1, r.so) \o <<c>> \o SubSeq(@, r.so + 1, Len(@))],
                 Caret(r.sc, r.so + 1))

\* a keystroke, then the editor's input listener
UserType(c) ==
    /\ appShown
    /\ ui.contentEditable
    /\ sel \in CaretPoints(editor)
    /\ Len(textContent(editor)) < MaxDocLen
    /\ \E typed \in {TypeAt(editor, sel, c)} :
       \E r \in {applyRealtimeFormatting(typed.dom, typed.sel)} :
          /\ editor' = r.dom
          /\ sel' = r.sel
    /\ timers' = timers + 1
    /\ Handler("input")
    /\ calls' = << >>
    /\ readLines' = << >>
    /\ UNCHANGED <<accountVars, state, ui, streamingToggle, history, sessionVars, fmt, novelVars>>

\* the editor's keydown listener on Enter where a manual line break is needed
needsManualLineBreak(dom, r) ==
    /\ r # NoSel
    /\ r.sc > 0
    /\ dom[r.sc].t = "text"
    /\ dom[r.sc].s # << >>
    /\ \/ \A i \in 1..Len(dom[r.sc].s) : dom[r.sc].s[i] = ZWSP
       \/ (r.sc > 1 /\ dom[r.sc - 1].t = "img")
       \/ (r.sc < Len(dom) /\ dom[r.sc + 1].t = "img")

LineBreak == <<BrNode, TextNode(<<ZWSP>>)>>

\* Enter: the br and the marker text node go in at the caret, the caret moves
\* behind the marker, and the dispatched input event runs the input listener
KeyEnter ==
    /\ appShown
    /\ ui.contentEditable
    /\ sel \in CaretPoints(editor)
    /\ needsManualLineBreak(editor, sel)
    /\ Len(textContent(editor)) < MaxDocLen
    /\ \E dom1 \in {InsertNodes(editor, sel.sc, sel.so, LineBreak)} :
       \E r \in {applyRealtimeFormatting(dom1,
                     Caret(InsertedLast(editor, sel.sc, sel.so, LineBreak), 1))} :
          /\ editor' = r.dom
          /\ sel' = r.sel
    /\ timers' = timers + 1
    /\ Handler("keydown")
    /\ calls' = << >>
    /\ readLines' = << >>
    /\ UNCHANGED <<accountVars, state, ui, streamingToggle, history, sessionVars, fmt, novelVars>>

\* a debounce timeout of the input listener fires
HistoryTimer ==
    /\ timers > 0
    /\ timers' = timers - 1
    /\ history' = pushHistory(history, getPlainText(editor))
    /\ Handler("debounce")
    /\ calls' = << >>
    /\ readLines' = << >>
    /\ UNCHANGED <<surfaceVars, accountVars, state, ui, streamingToggle, sessionVars, fmt, novelVars>>

ToggleStreaming ==
    /\ appShown
    /\ streamingToggle' = ~streamingToggle
    /\ Handler("saveSettings")
    /\ calls' = << >>
    /\ readLines' = << >>
    /\ UNCHANGED <<surfaceVars, accountVars, state, ui, history, timers, sessionVars, fmt, novelVars>>

handleUndo ==
    /\ undoResult(history) # NoContent
    /\ history' = undo(history, getPlainText(editor))
    /\ \E r \in {setPlainText(editor, sel, undoResult(history))} :
          editor' = r.dom /\ sel' = r.sel
    /\ Handler("handleUndo")
    /\ calls' = << >>
    /\ readLines' = << >>
    /\ UNCHANGED <<accountVars, state, ui, streamingToggle, timers, sessionVars, fmt, novelVars>>

handleRedo ==
    /\ redoResult(history) # NoContent
    /\ history' = redo(history, getPlainText(editor))
    /\ \E r \in {setPlainText(editor, sel, redoResult(history))} :
          editor' = r.dom /\ sel' = r.sel
    /\ Handler("handleRedo")
    /\ calls' = << >>
    /\ readLines' = << >>
    /\ UNCHANGED <<accountVars, state, ui, streamingToggle, timers, sessionVars, fmt, novelVars>>


\* ------------------------------------------------------------ text generation
DataLine(t) == [k |-> "data", text |-> t]
BadLine == [k |-> "malformed", text |-> << >>]
DoneLine == [k |-> "done", text |-> << >>]
OtherLine == [k |-> "other", text |-> << >>]

ChunkTexts == {<<"a">>, <<AST>>}
LineSet == {DataLine(t) : t \in ChunkTexts \cup {<< >>}} \cup {BadLine, DoneLine, OtherLine}
\* what one read brings after the end of the pending line: at most one whole
\* line, and at most one unterminated line
StreamLineSet == {DataLine(<<"a">>), DataLine(<< >>), BadLine, DoneLine, OtherLine}
ReadLines == {<< >>} \cup {<<l>> : l \in StreamLineSet}
ResponseTexts == {<< >>, <<"a">>, <<AST, "a", AST>>}

\* a callback invocation: which request (and how it ran), which callback, its
\* arguments, the textBefore and textAfter its closure holds, and the text the
\* request had accumulated
ChunkCall(chunk, acc, g) ==
    [req |-> "text", mode |-> g.pc, cb |-> "onChunk", chunk |-> chunk, text |-> acc,
     before |-> g.textBefore, after |-> g.textAfter, acc |-> acc]
CompleteCall(acc, g) ==
    [req |-> "text", mode |-> g.pc, cb |-> "onComplete", chunk |-> << >>, text |-> acc,
     before |-> g.textBefore, after |-> g.textAfter, acc |-> acc]
ErrorCall(g) ==
    [req |-> "text", mode |-> g.pc, cb |-> "onError", chunk |-> << >>, text |-> << >>,
     before |-> g.textBefore, after |-> g.textAfter, acc |-> g.fullText]
ImageCall(cb) ==
    [req |-> "image", mode |-> "body", cb |-> cb, chunk |-> << >>, text |-> << >>,
     before |-> << >>, after |-> << >>, acc |-> << >>]

\* the body shared by handleGenerate's onChunk and onComplete: splice and move the caret
Splice(dom, s, g, generatedText) ==
    LET newText == g.textBefore \o generatedText \o g.textAfter
        r == setPlainText(dom, s, newText)
        newCursorPos == Len(g.textBefore) + Len(generatedText)
    IN Surface(r.dom, setCursorOffset(r.dom, r.sel, newCursorPos))

\* a variant of the loop without the test for an empty text: every data line
\* is reported as a chunk
RECURSIVE ProcessLinesNoEmptyTest(_, _, _, _)
ProcessLinesNoEmptyTest(lines, g, surf, cs) ==
    IF lines = << >> THEN [gen |-> g, surf |-> surf, calls |-> cs]
    ELSE LET line == Head(lines)
         IN IF line.k = "data"
            THEN LET fullText == g.fullText \o line.text
                     g1 == [g EXCEPT !.fullText = fullText]
                 IN ProcessLinesNoEmptyTest(Tail(lines), g1,
                                            Splice(surf.dom, surf.sel, g1, fullText),
                                            Append(cs, ChunkCall(line.text, fullText, g1)))
            ELSE ProcessLinesNoEmptyTest(Tail(lines), g, surf, cs)

\* the for-loop of generateWithStreaming over the complete lines of one read
RECURSIVE ProcessLines(_, _, _, _)
ProcessLines(lines, g, surf, cs) ==
    IF lines = << >> THEN [gen |-> g, surf |-> surf, calls |-> cs]
    ELSE LET line == Head(lines)
         IN IF line.k = "data" /\ line.text # << >>
            THEN LET fullText == g.fullText \o line.text
                     g1 == [g EXCEPT !.fullText = fullText]
                 IN ProcessLines(Tail(lines), g1, Splice(surf.dom, surf.sel, g1, fullText),
                                 Append(cs, ChunkCall(line.text, fullText, g1)))
            ELSE ProcessLines(Tail(lines), g, surf, cs)

SettleController(ctl, kind) == IF ctl = kind THEN "settled" ELSE ctl

\* handleGenerate, up to the first await inside GeminiModule.generateText
handleGenerate ==
    /\ Handler("handleGenerate")
    /\ calls' = << >>
    /\ readLines' = << >>
    /\ IF state.isGenerating \/ ~apiKey \/ ~canGenerate(rl)
       THEN UNCHANGED <<surfaceVars, accountVars, state, ui, streamingToggle, history, timers,
                        sessionVars, fmt, novelVars>>
       ELSE LET cursorPos == getCursorOffset(editor, sel)
                fullText == getPlainText(editor)
                textBefore == SubSeq(fullText, 1, cursorPos)
                textAfter == SubSeq(fullText, cursorPos + 1, Len(fullText))
                s == setGeneratingState(state, ui, streamingToggle, TRUE)
            IN IF ~checkInputTokenLimit(rl, textBefore)
               THEN UNCHANGED <<surfaceVars, accountVars, state, ui, streamingToggle, history,
                                timers, sessionVars, fmt, novelVars>>
               ELSE /\ gen.pc = "idle"
                    /\ history' = pushHistory(history, fullText)
                    /\ state' = s.state
                    /\ ui' = s.ui
                    /\ currentController' = "text"
                    /\ imgOrphans' = IF currentController = "image" THEN imgOrphans + 1
                                     ELSE imgOrphans
                    /\ gen' = [pc |-> IF streamingToggle THEN "stream" ELSE "body",
                               textBefore |-> textBefore, textAfter |-> textAfter,
                               fullText |-> << >>, buffer |-> << >>]
                    /\ UNCHANGED <<surfaceVars, accountVars, streamingToggle, timers, fmt, novelVars>>

\* reader.read() resolves with data: the pending partial line is completed,
\* lines arrive whole, and partial is the unterminated rest kept in buffer
StreamRead(lines, partial) ==
    /\ gen.pc = "stream"
    /\ gen.buffer \o lines \o partial # << >>
    /\ Len(partial) <= 1
    /\ \E r \in {ProcessLines(gen.buffer \o lines, gen, Surface(editor, sel), << >>)} :
          /\ Len(r.gen.textBefore) + Len(r.gen.fullText) + Len(r.gen.textAfter) <= MaxDocLen
          /\ gen' = [r.gen EXCEPT !.buffer = partial]
          /\ editor' = r.surf.dom
          /\ sel' = r.surf.sel
          /\ calls' = r.calls
          /\ readLines' = gen.buffer \o lines
    /\ Handler("read")
    /\ UNCHANGED <<accountVars, state, ui, streamingToggle, history, timers, currentController,
                   imgOrphans, fmt, novelVars>>

\* what handleGenerate's onComplete does with the generated text
OnCompleteText(generatedText) ==
    \E r \in {Splice(editor, sel, gen, generatedText)} :
    LET s == setGeneratingState(state, ui, streamingToggle, FALSE)
    IN /\ editor' = r.dom
       /\ sel' = r.sel
       /\ state' = s.state
       /\ ui' = s.ui
       /\ history' = pushHistory(history, gen.textBefore \o generatedText \o gen.textAfter)
       /\ rl' = [rl EXCEPT !.generationCount = @ + 1]
       /\ stored' = [ip |-> rl.ip, count |-> rl.generationCount + 1]
       /\ calls' = <<CompleteCall(generatedText, gen)>>

\* a variant of onError that counts the failed generation as well
OnErrorTextCounted ==
    LET s == setGeneratingState(state, ui, streamingToggle, FALSE)
    IN /\ state' = s.state
       /\ ui' = s.ui
       /\ calls' = <<ErrorCall(gen)>>
       /\ rl' = [rl EXCEPT !.generationCount = @ + 1]
       /\ stored' = [ip |-> rl.ip, count |-> rl.generationCount + 1]
       /\ UNCHANGED <<surfaceVars, history>>

\* what handleGenerate's onError does
OnErrorText ==
    LET s == setGeneratingState(state, ui, streamingToggle, FALSE)
    IN /\ state' = s.state
       /\ ui' = s.ui
       /\ calls' = <<ErrorCall(gen)>>
       /\ UNCHANGED <<surfaceVars, history, rl, stored>>

\* reader.read() resolves with done
StreamEnd ==
    /\ gen.pc = "stream"
    /\ OnCompleteText(gen.fullText)
    /\ gen' = IdleGen
    /\ currentController' = SettleController(currentController, "text")
    /\ Handler("streamEnd")
    /\ readLines' = << >>
    /\ UNCHANGED <<apiKey, appShown, rlInit, streamingToggle, timers, imgOrphans, fmt, novelVars>>

\* generateWithoutStreaming: response.json() resolves
Response(text) ==
    /\ gen.pc = "body"
    /\ Len(gen.textBefore) + Len(text) + Len(gen.textAfter) <= MaxDocLen
    /\ IF text = << >> THEN OnErrorText ELSE OnCompleteText(text)
    /\ gen' = IdleGen
    /\ currentController' = SettleController(currentController, "text")
    /\ Handler("response")
    /\ readLines' = << >>
    /\ UNCHANGED <<apiKey, appShown, rlInit, streamingToggle, timers, imgOrphans, fmt, novelVars>>

\* a variant of the failure path that reports nothing: the session just ends
RequestFailedSilently ==
    /\ gen.pc \in {"stream", "body"}
    /\ LET s == setGeneratingState(state, ui, streamingToggle, FALSE)
       IN state' = s.state /\ ui' = s.ui
    /\ calls' = << >>
    /\ gen' = IdleGen
    /\ currentController' = SettleController(currentController, "text")
    /\ Handler("requestFailed")
    /\ readLines' = << >>
    /\ UNCHANGED <<surfaceVars, history, rl, stored>>
    /\ UNCHANGED <<apiKey, appShown, rlInit, streamingToggle, timers, imgOrphans, fmt, novelVars>>

\* fetch rejects, the status is not ok, or a read fails
RequestFailed ==
    /\ gen.pc \in {"stream", "body"}
    /\ OnErrorText
    /\ gen' = IdleGen
    /\ currentController' = SettleController(currentController, "text")
    /\ Handler("requestFailed")
    /\ readLines' = << >>
    /\ UNCHANGED <<apiKey, appShown, rlInit, streamingToggle, timers, imgOrphans, fmt, novelVars>>


\* ------------------------------------------------------------ image generation
ImageBlock == <<BrNode, ImgNode, BrNode, TextNode(<<ZWSP>>)>>

\* insertImageIntoEditor; the selection is a caret or there is none
insertImageIntoEditor(dom, s) ==
    IF s # NoSel
    THEN LET dom1 == InsertNodes(dom, s.sc, s.so, ImageBlock)
         IN Surface(dom1, Caret(InsertedLast(dom, s.sc, s.so, ImageBlock), 1))
    ELSE Surface(dom \o ImageBlock, Caret(Len(dom) + Len(ImageBlock), 1))

handleGenerateImage ==
    /\ appShown
    /\ ~ui.btnGenerateImageHidden
    /\ Handler("handleGenerateImage")
    /\ calls' = << >>
    /\ readLines' = << >>
    /\ IF \/ state.isGenerating \/ state.isGeneratingImage \/ ~apiKey
          \/ ~canGenerateImage(rl)
          \/ TrimEmpty(getPlainText(editor))
       THEN UNCHANGED <<surfaceVars, accountVars, state, ui, streamingToggle, history, timers,
                        sessionVars, fmt, novelVars>>
       ELSE LET s == setImageGeneratingState(state, ui, TRUE)
            IN /\ state' = s.state
               /\ ui' = s.ui
               /\ currentController' = "image"
               /\ imgOrphans' = IF currentController = "image" THEN imgOrphans + 1
                                ELSE imgOrphans
               /\ UNCHANGED <<surfaceVars, accountVars, streamingToggle, history, timers, gen,
                              fmt, novelVars>>

\* an image request in flight: the one currentController refers to, or an orphan
ImageRequest(held) ==
    IF held THEN currentController = "image" ELSE imgOrphans > 0

ImageSettled(held) ==
    /\ currentController' = IF held THEN "settled" ELSE currentController
    /\ imgOrphans' = IF held THEN imgOrphans ELSE imgOrphans - 1

\* generateImage: the response holds an image, handleGenerateImage's onComplete
\* runs; an insertNode into the document node throws and onError runs as well
ImageResponse(held) ==
    /\ ImageRequest(held)
    /\ ImageSettled(held)
    /\ \E r \in {insertImageIntoEditor(editor, sel)} :
       LET s == setImageGeneratingState(state, ui, FALSE)
       IN /\ state' = s.state
          /\ ui' = s.ui
          /\ IF sel # NoSel /\ sel.sc = DocNode
             THEN /\ calls' = <<ImageCall("onComplete"), ImageCall("onError")>>
                  /\ UNCHANGED <<surfaceVars, rl>>
             ELSE /\ calls' = <<ImageCall("onComplete")>>
                  /\ editor' = r.dom
                  /\ sel' = r.sel
                  /\ rl' = [rl EXCEPT !.imageGenerationCount = @ + 1]
    /\ Handler("imageResponse")
    /\ readLines' = << >>
    /\ UNCHANGED <<apiKey, appShown, rlInit, stored, streamingToggle, history, timers, gen,
                   fmt, novelVars>>

ImageFailed(held) ==
    /\ ImageRequest(held)
    /\ ImageSettled(held)
    /\ LET s == setImageGeneratingState(state, ui, FALSE)
       IN state' = s.state /\ ui' = s.ui
    /\ Handler("imageFailed")
    /\ calls' = <<ImageCall("onError")>>
    /\ readLines' = << >>
    /\ UNCHANGED <<surfaceVars, accountVars, streamingToggle, history, timers, gen,
                   fmt, novelVars>>

\* removal of node i: a boundary inside it moves to the editor element
RemovePoint(dom, c, o, i) ==
    IF c = i THEN <<0, Cardinality({k \in 1..(i - 1) : dom[k].t \in {"text", "br", "img"}})>>
    ELSE IF c > i THEN <<c - 1, o>>
    ELSE <<c, o>>

\* a confirmed click on the delete button of the image container at node i
DeleteImage(i) ==
    /\ appShown
    /\ i \in 1..Len(editor)
    /\ editor[i].t = "img"
    /\ editor' = SubSeq(editor, 1, i - 1) \o SubSeq(editor, i + 1, Len(editor))
    /\ sel' = IF sel = NoSel THEN NoSel
              ELSE LET a == RemovePoint(editor, sel.sc, sel.so, i)
                       b == RemovePoint(editor, sel.ec, sel.eo, i)
                   IN Range(a[1], a[2], b[1], b[2])
    /\ Handler("deleteImage")
    /\ calls' = << >>
    /\ readLines' = << >>
    /\ UNCHANGED <<accountVars, state, ui, streamingToggle, history, timers, sessionVars, fmt, novelVars>>

\* ------------------------------------------------------------ stopping
\* a variant of the stop handler that resets the UI state and aborts nothing
handleStopGenerationUiOnly ==
    /\ (appShown /\ ~ui.btnStopHidden) \/ state.isGenerating
    /\ LET s1 == setGeneratingState(state, ui, streamingToggle, FALSE)
           s2 == setImageGeneratingState(s1.state, s1.ui, FALSE)
       IN state' = s2.state /\ ui' = s2.ui
    /\ Handler("handleStopGeneration")
    /\ calls' = << >>
    /\ readLines' = << >>
    /\ UNCHANGED <<surfaceVars, accountVars, streamingToggle, history, timers, sessionVars,
                   fmt, novelVars>>

\* a variant of the stop handler whose cancellation rolls the partial output back
handleStopGenerationRollback ==
    /\ (appShown /\ ~ui.btnStopHidden) \/ state.isGenerating
    /\ LET s1 == setGeneratingState(state, ui, streamingToggle, FALSE)
           s2 == setImageGeneratingState(s1.state, s1.ui, FALSE)
           abortText == currentController = "text" /\ gen.pc # "idle"
           abortImage == currentController = "image"
       IN /\ state' = s2.state
          /\ ui' = s2.ui
          /\ gen' = IF abortText THEN IdleGen ELSE gen
          /\ calls' = IF abortText THEN <<ErrorCall(gen)>>
                      ELSE IF abortImage THEN <<ImageCall("onError")>> ELSE << >>
          /\ IF abortText
             THEN \E r \in {setPlainText(editor, sel, gen.textBefore \o gen.textAfter)} :
                     editor' = r.dom /\ sel' = r.sel
             ELSE UNCHANGED surfaceVars
    /\ currentController' = "null"
    /\ Handler("handleStopGeneration")
    /\ readLines' = << >>
    /\ UNCHANGED <<accountVars, streamingToggle, history, timers, imgOrphans, fmt, novelVars>>

\* handleStopGeneration (the stop button or Escape), then the rejection that
\* the abort delivers to the request currentController refers to
handleStopGeneration ==
    /\ (appShown /\ ~ui.btnStopHidden) \/ state.isGenerating
    /\ LET s1 == setGeneratingState(state, ui, streamingToggle, FALSE)
           s2 == setImageGeneratingState(s1.state, s1.ui, FALSE)
           abortText == currentController = "text" /\ gen.pc # "idle"
           abortImage == currentController = "image"
           s3 == IF abortText THEN setGeneratingState(s2.state, s2.ui, streamingToggle, FALSE)
                 ELSE IF abortImage THEN setImageGeneratingState(s2.state, s2.ui, FALSE)
                 ELSE s2
       IN /\ state' = s3.state
          /\ ui' = s3.ui
          /\ gen' = IF abortText THEN IdleGen ELSE gen
          /\ calls' = IF abortText THEN <<ErrorCall(gen)>>
                      ELSE IF abortImage THEN <<ImageCall("onError")>> ELSE << >>
    /\ currentController' = "null"
    /\ Handler("handleStopGeneration")
    /\ readLines' = << >>
    /\ UNCHANGED <<surfaceVars, accountVars, streamingToggle, history, timers, imgOrphans,
                   fmt, novelVars>>

\* ------------------------------------------------------------ specification
Next ==
    \/ \E admin \in BOOLEAN : PasswordSubmit(admin)
    \/ RateLimitInitialized
    \/ \E r \in CaretPoints(editor) : UserClick(r)
    \/ \E c \in TypedChars : UserType(c)
    \/ KeyEnter
    \/ HistoryTimer
    \/ ToggleStreaming
    \/ handleUndo
    \/ handleRedo
    \/ handleGenerate
    \/ \E line \in LineSet : StreamRead(<<line>>, << >>)
    \/ StreamEnd
    \/ \E text \in ResponseTexts : Response(text)
    \/ RequestFailed
    \/ handleStopGeneration
    \/ handleGenerateImage
    \/ \E held \in BOOLEAN : ImageResponse(held)
    \/ \E held \in BOOLEAN : ImageFailed(held)
    \/ \E i \in 1..Len(editor) : DeleteImage(i)

Spec == Init /\ [][Next]_vars

\* the last callback the last handler invoked
LastCall == calls[Len(calls)]

TextCallbackRan(cbs) ==
    calls # << >> /\ LastCall.req = "text" /\ LastCall.cb \in cbs

\* C1: after every onChunk and after onComplete of a text session the
\* editor's plain text is textBefore, then the text generated so far, then
\* textAfter, whatever was edited between the chunks.
C1_EditorIsSplice ==
    TextCallbackRan({"onChunk", "onComplete"}) =>
        getPlainText(editor) = LastCall.before \o LastCall.text \o LastCall.after

\* C2: handleStopGeneration ends the text session in flight, so no onChunk
\* and no onComplete of it runs afterwards (they run only for a session in
\* flight), and isGenerating, false after the stop, becomes true again only
\* when handleGenerate starts a session.
C2_StopEndsSession ==
    [][/\ lastOp' = "handleStopGeneration" => (gen'.pc = "idle" /\ ~state'.isGenerating)
       /\ (~state.isGenerating /\ state'.isGenerating) => lastOp' = "handleGenerate"
       /\ (gen.pc = "idle" /\ gen'.pc # "idle") => lastOp' = "handleGenerate"
       /\ (calls' # << >> /\ calls'[1].req = "text" /\ calls'[1].cb \in {"onChunk", "onComplete"})
             => gen.pc # "idle"]_vars

\* a streaming session that had received text was stopped
C2_Witness ==
    /\ lastOp = "handleStopGeneration"
    /\ TextCallbackRan({"onError"})
    /\ LastCall.mode = "stream"
    /\ LastCall.acc # << >>
    /\ gen.pc = "idle"
    /\ ~state.isGenerating

C5_RateLimitRejects ==
    [][(lastOp' = "handleGenerate" /\ ~rl.isAdmin
            /\ rl.generationCount >= MAX_GENERATIONS_PER_IP) =>
          /\ gen' = gen
          /\ currentController' = currentController
          /\ state' = state
          /\ ui' = ui
          /\ history' = history]_vars

\* handleGenerate ran for an unlocked non-admin at the limit, nothing else in its way
C5_Witness ==
    /\ lastOp = "handleGenerate"
    /\ apiKey
    /\ ~rl.isAdmin
    /\ rl.generationCount = MAX_GENERATIONS_PER_IP
    /\ ~state.isGenerating
    /\ gen.pc = "idle"

\* C6: generationCount goes up by exactly 1 in a handler run in which a text
\* session's onComplete runs, and is left as it is by every other handler run
\* (onError, a stop, a rejected handleGenerate); only the load of the saved
\* count during initialisation sets it otherwise.
C6_CountPerCompletion ==
    [][lastOp' # "initialize" =>
          rl'.generationCount =
              rl.generationCount
                + (IF calls' # << >> /\ calls'[Len(calls')].req = "text"
                      /\ calls'[Len(calls')].cb = "onComplete" THEN 1 ELSE 0)]_vars

\* a session completed and took the count to the limit
C6_Witness ==
    /\ TextCallbackRan({"onComplete"})
    /\ rl.generationCount = MAX_GENERATIONS_PER_IP
    /\ stored.count = MAX_GENERATIONS_PER_IP

\* C13: after every onChunk and after onComplete of a text session the caret
\* offset captured from the editor is the length of textBefore plus the
\* length of the text generated so far: the end of the generated text.
C13_CaretAfterGenerated ==
    TextCallbackRan({"onChunk", "onComplete"}) =>
        getCursorOffset(editor, sel) = Len(LastCall.before) + Len(LastCall.text)

\* C16: every input event rearms the one history timer of the editor, so at
\* most one debounce callback is pending at any time and a burst of input
\* events ends in one pushHistory call.
C16_OneTimerPending == timers <= 1

\* C20: a generation that yields no text ends in onError: onComplete never
\* runs with a text that is empty or whitespace.
C20_NoTextIsAnError ==
    TextCallbackRan({"onComplete"}) => ~TrimEmpty(LastCall.text)

\* the positions in cs of the onComplete and onError calls of a text session
TerminalCalls(cs) ==
    {i \in 1..Len(cs) : cs[i].req = "text" /\ cs[i].cb \in {"onComplete", "onError"}}

C25_ImageBlockAtCaret ==
    [][(lastOp' = "imageResponse" /\ calls' # << >> /\ calls'[1].cb = "onComplete") =>
          LET at == IF sel = NoSel THEN Len(textContent(editor))
                    ELSE getCursorOffset(editor, sel)
          IN \E k \in 1..(Len(editor') - 3) :
                /\ SubSeq(editor', k, k + 3) = ImageBlock
                /\ sel' = Caret(k + 3, 1)
                /\ textContent(SubSeq(editor', 1, k - 1)) = SubSeq(textContent(editor), 1, at)
       ]_vars

\* C26: when handleGenerateImage's onComplete has put the image in, the
\* editor's plain text is the plain text from before with one zero-width
\* space added at the offset of the caret (at the end when there was no
\* selection).
C26_ImageAddsOneMarker ==
    [][(lastOp' = "imageResponse" /\ calls' # << >> /\ calls'[1].cb = "onComplete") =>
          LET before == getPlainText(editor)
              at == IF sel = NoSel THEN Len(before) ELSE getCursorOffset(editor, sel)
          IN getPlainText(editor')
                = SubSeq(before, 1, at) \o <<ZWSP>> \o SubSeq(before, at + 1, Len(before))
       ]_vars

\* C29: an undo right after the onComplete of a text session sets the
\* editor's text to textBefore and textAfter, the text from before the
\* generation, and leaves the text with the generated passage as the one a
\* following redo brings back.
C29_UndoRevertsGeneration ==
    [][(TextCallbackRan({"onComplete"}) /\ lastOp' = "handleUndo") =>
          /\ getPlainText(editor') = LastCall.before \o LastCall.after
          /\ redoResult(history') = LastCall.before \o LastCall.text \o LastCall.after
       ]_vars

\* C30: a text session and an image session are never in progress together:
\* isGenerating and isGeneratingImage are not both true, and no provider
\* request is in flight that currentController does not refer to.
C30_OneGenerationAtATime ==
    /\ ~(state.isGenerating /\ state.isGeneratingImage)
    /\ imgOrphans = 0

\* C31: whenever neither a text nor an image generation is in progress, the
\* editor is contentEditable and the loading overlay is hidden.
C31_IdleEditorEditable ==
    (~state.isGenerating /\ ~state.isGeneratingImage) =>
        (ui.contentEditable /\ ui.overlayHidden)

\* C36: for a non-admin canGenerate allows exactly when
\* getRemainingGenerations is above 0, and the generation count never
\* exceeds MAX_GENERATIONS_PER_IP; for an admin canGenerate always allows.
C36_CountWithinLimit ==
    IF rl.isAdmin THEN canGenerate(rl)
    ELSE /\ canGenerate(rl) <=> getRemainingGenerations(rl) > 0
         /\ rl.generationCount <= MAX_GENERATIONS_PER_IP

C9_ImageStays ==
    [][ImageCount(editor') < ImageCount(editor) => lastOp' = "deleteImage"]_vars


\* ------------------------------------------------------------ the formatter alone
\* FormatterModule applied to an arbitrary text: setPlainText on an empty
\* editor, a selection made in the rendered text, a re-render, a caret
\* capture and restore
TextPoints(dom) ==
    UNION {{<<i, o>> : o \in 0..Len(dom[i].s)} : i \in {k \in 1..Len(dom) : dom[k].t = "text"}}

\* the number of children of the editor element
ChildCount(dom) ==
    Cardinality({i \in 1..Len(dom) :
                    /\ dom[i].t # "close"
                    /\ Cardinality({k \in 1..(i - 1) : dom[k].t \in {"dialogue", "thoughts", "emphasis"}})
                         = Cardinality({k \in 1..(i - 1) : dom[k].t = "close"})})

\* boundary points in a text node or between children of the editor element
SelPoints(dom) == TextPoints(dom) \cup {<<0, k>> : k \in 0..ChildCount(dom)}

\* document order of boundary points
PointKey(dom, p) == IF p[1] = 0 THEN <<ChildStart(dom, p[2], 1, 0, 0), 0 - 1>> ELSE p

NotAfter(a, b) == a[1] < b[1] \/ (a[1] = b[1] /\ a[2] <= b[2])

SelRanges(dom) ==
    {Range(pq[1][1], pq[1][2], pq[2][1], pq[2][2]) :
        pq \in {x \in SelPoints(dom) \X SelPoints(dom) :
                   NotAfter(PointKey(dom, x[1]), PointKey(dom, x[2]))}}

\* a contraction, then a run in single quotes: n't 'a,' b
ContractionSample == <<"n", SQ, "t", SP, SQ, "a", ",", SQ, SP, "b">>

\* longer texts: text around a span, a span inside a span, spans that cross,
\* a pair of quotes around a paragraph break
FmtSamples ==
    {<<"a", DQ, "a", DQ, "a">>, <<DQ, AST, "a", AST, DQ>>, <<SP, SQ, "a", SQ>>,
     <<DQ, SP, SQ, "a", SQ, DQ>>, <<AST, "a", SP, DQ, "a", AST, DQ>>, <<"a", AST, "a", AST>>,
     <<DQ, "a", "\n", "\n", "a", DQ>>, ContractionSample}

InitFmt ==
    /\ editor = << >>
    /\ sel = NoSel
    /\ apiKey = FALSE
    /\ appShown = FALSE
    /\ rlInit = "none"
    /\ rl = [ip |-> "null", generationCount |-> 0, imageGenerationCount |-> 0,
             isAdmin |-> FALSE]
    /\ stored = [ip |-> "ip", count |-> 0]
    /\ state = [isGenerating |-> FALSE, isGeneratingImage |-> FALSE]
    /\ ui = [contentEditable |-> TRUE, overlayHidden |-> TRUE, btnGenerateHidden |-> FALSE,
             btnGenerateImageHidden |-> FALSE, btnStopHidden |-> TRUE]
    /\ streamingToggle = TRUE
    /\ history = History(<< >>, << >>)
    /\ timers = 0
    /\ currentController = "null"
    /\ gen = IdleGen
    /\ imgOrphans = 0
    /\ steps = 0
    /\ lastOp = "init"
    /\ calls = << >>
    /\ readLines = << >>
    /\ fmt \in {[pc |-> "start", text |-> t, html |-> << >>, pos |-> NullPos] :
                   t \in SeqsUpTo(FmtAlphabet, MaxFmtLen) \cup FmtSamples}
    /\ novelWriter = NovelWriter
    /\ novelPage = NovelPage

FmtSetPlainText ==
    /\ fmt.pc = "start"
    /\ \E r \in {setPlainText(editor, sel, fmt.text)} :
          /\ editor' = r.dom
          /\ sel' = r.sel
          /\ fmt' = [fmt EXCEPT !.pc = "rendered", !.html = innerHTML(r.dom)]
    /\ UNCHANGED appVars

\* the earlier applyRealtimeFormatting on an element that holds the text
FmtRender_part004 ==
    /\ fmt.pc = "start"
    /\ editor' = SetInnerHTML(FormatHtml_part004(fmt.text))
    /\ fmt' = [fmt EXCEPT !.pc = "rendered_part004",
                          !.html = FormatHtml_part004(fmt.text)]
    /\ UNCHANGED <<sel, appVars>>

FmtSelect(r) ==
    /\ fmt.pc = "rendered"
    /\ sel' = r
    /\ fmt' = [fmt EXCEPT !.pc = "selected"]
    /\ UNCHANGED <<editor, appVars>>

FmtRerender ==
    /\ fmt.pc \in {"rendered", "selected"}
    /\ \E r \in {applyRealtimeFormatting(editor, sel)} :
          /\ editor' = r.dom
          /\ sel' = r.sel
    /\ fmt' = [fmt EXCEPT !.pc = "rerendered"]
    /\ UNCHANGED appVars

FmtSaveRestore ==
    /\ fmt.pc = "selected"
    /\ LET savedPosition == saveCursorPosition(editor, sel)
       IN /\ sel' = restoreCursorPosition(editor, sel, savedPosition)
          /\ fmt' = [fmt EXCEPT !.pc = "restored", !.pos = savedPosition]
    /\ UNCHANGED <<editor, appVars>>

\* an image arrives while the caret is at r, or while nothing is selected
FmtInsertImage(r) ==
    /\ fmt.pc = "rendered"
    /\ \E s \in {insertImageIntoEditor(editor, r)} :
          /\ editor' = s.dom
          /\ sel' = s.sel
    /\ fmt' = [fmt EXCEPT !.pc = "image"]
    /\ UNCHANGED appVars

\* saved positions, up to MaxOvershoot characters beyond the end of the content
SavedPositions(dom) ==
    LET top == Len(textContent(dom)) + MaxOvershoot
    IN {p \in {Pos(s, e) : s \in 0..top, e \in 0..top} : p.start <= p.end}

\* restoreCursorPosition with a position saved at another time
FmtRestore(pos) ==
    /\ fmt.pc \in {"rendered", "image"}
    /\ sel' = restoreCursorPosition(editor, sel, pos)
    /\ fmt' = [fmt EXCEPT !.pc = "placed", !.pos = pos]
    /\ UNCHANGED <<editor, appVars>>

\* the same with the earlier formatter
FmtRestore_part004(pos) ==
    /\ fmt.pc \in {"rendered", "image"}
    /\ sel' = restoreCursorPosition_part004(editor, sel, pos)
    /\ fmt' = [fmt EXCEPT !.pc = "placed_part004", !.pos = pos]
    /\ UNCHANGED <<editor, appVars>>

\* saveCursorPosition with the selection as it is
FmtSave ==
    /\ fmt.pc \in {"rendered", "image", "placed", "placed_part004"}
    /\ fmt' = [fmt EXCEPT !.pc = "saved", !.pos = saveCursorPosition(editor, sel)]
    /\ UNCHANGED <<editor, sel, appVars>>

NextFmt ==
    \/ FmtSetPlainText
    \/ FmtSave
    \/ FmtRender_part004
    \/ fmt.pc = "rendered" /\ \E r \in SelRanges(editor) : FmtSelect(r)
    \/ FmtRerender
    \/ FmtSaveRestore
    \/ fmt.pc = "rendered" /\ \E r \in CaretPoints(editor) \cup {NoSel} : FmtInsertImage(r)
    \/ fmt.pc \in {"rendered", "image"} /\ \E pos \in SavedPositions(editor) : FmtRestore(pos)
    \/ fmt.pc \in {"rendered", "image"}
          /\ \E pos \in SavedPositions(editor) : FmtRestore_part004(pos)

SpecFmt == InitFmt /\ [][NextFmt]_vars

Count(text, c) == Cardinality({i \in 1..Len(text) : text[i] = c})

\* every delimiter of the text has its partner
Balanced(text) ==
    /\ Count(text, DQ) % 2 = 0
    /\ Count(text, SQ) % 2 = 0
    /\ Count(text, AST) % 2 = 0

\* C7: rendering the editor again from its own rendered content leaves its
\* innerHTML as it was, emphasis spans included.
C7_RerenderIdempotent ==
    fmt.pc = "rerendered" => innerHTML(editor) = fmt.html

\* C8: for a text whose quotes and asterisks are balanced, the plain text read
\* back after setPlainText(text) is text.
C8_PlainTextRoundTrip ==
    (fmt.pc = "rendered" /\ Balanced(fmt.text)) => getPlainText(editor) = fmt.text

\* C10: restoring a saved caret position leaves the selection where it was:
\* saving again gives the same start and end, and end is not before start,
\* also when an offset lies on the boundary between two nodes.
C10_SaveRestoreRoundTrip ==
    fmt.pc = "restored" =>
        /\ saveCursorPosition(editor, sel) = fmt.pos
        /\ fmt.pos.end >= fmt.pos.start

\* a selection that starts on the boundary between two nodes was saved and restored
C10_Witness ==
    /\ fmt.pc = "restored"
    /\ fmt.pos.start < fmt.pos.end
    /\ sel.sc > 0
    /\ sel.ec > sel.sc
    /\ sel.so = Len(editor[sel.sc].s)

Placed == fmt.pc \in {"placed", "placed_part004"}

\* C11: restoreCursorPosition with a saved start or end beyond the length of
\* the content puts that boundary at the end of the content, so that saving
\* again gives the length of the content, and never at an offset beyond the
\* length of the text node it is set in.
C11_ClampToEnd ==
    Placed =>
        LET totalLength == Len(textContent(editor))
        IN /\ fmt.pos.start > totalLength =>
                 saveCursorPosition(editor, sel).start = totalLength
           /\ fmt.pos.end > totalLength =>
                 saveCursorPosition(editor, sel).end = totalLength
           /\ sel.sc > 0 => sel.so <= Len(editor[sel.sc].s)
           /\ sel.ec > 0 => sel.eo <= Len(editor[sel.ec].s)

\* C12: restoreCursorPosition sets both boundaries of the selection in an
\* editable text node of the editor: not in the text of an image container's
\* delete button, and not outside the editor, whatever the content is.
C12_RestoreInEditableText ==
    Placed =>
        /\ sel.sc > 0 /\ editor[sel.sc].t = "text"
        /\ sel.ec > 0 /\ editor[sel.ec].t = "text"

\* the number of spans that are open at node i of dom
SpanDepth(dom, i) ==
    Cardinality({k \in 1..i : dom[k].t \in {"dialogue", "thoughts", "emphasis"}})
        - Cardinality({k \in 1..i : dom[k].t = "close"})

HasParagraphBreak(text) ==
    \E k \in 1..(Len(text) - 1) : text[k] = "\n" /\ text[k + 1] = "\n"

\* C22: in the rendered editor no span lies inside another span, and no
\* span holds a paragraph break.
C22_SpansFlatWithinParagraph ==
    \A i \in 1..Len(editor) :
        /\ SpanDepth(editor, i) <= 1
        /\ (editor[i].t = "text" /\ SpanDepth(editor, i) >= 1)
              => ~HasParagraphBreak(editor[i].s)

\* C27: saveCursorPosition returns null when there is no selection and
\* when the selection lies outside the editor, and a pair of offsets only
\* for a selection inside the editor.
C27_SaveNullOutsideRoot ==
    fmt.pc = "saved" =>
        (fmt.pos = NullPos <=> (sel = NoSel \/ sel.sc = DocNode \/ sel.ec = DocNode))

\* C23: a run in single quotes is rendered as a thoughts span only when its
\* opening quote is at the start of the text or right behind whitespace; in
\* the text n't 'a,' b the contraction stays plain and 'a,' is the one
\* thoughts span.
C23_ThoughtsNeedLeadingSpace ==
    fmt.pc \in {"rendered", "rendered_part004"} =>
        /\ \A i \in 1..Len(editor) :
              editor[i].t = "thoughts" =>
                 LET before == textContent(SubSeq(editor, 1, i - 1))
                 IN before = << >> \/ IsSpace(before[Len(before)])
        /\ fmt.text = ContractionSample =>
              editor = <<TextNode(<<"n", SQ, "t", SP>>), SpanOpen("thoughts"),
                         TextNode(<<SQ, "a", ",", SQ>>), SpanClose, TextNode(<<SP, "b">>)>>

\* ------------------------------------------------------------ the stream alone
\* a streaming request with every split of the SSE stream into reads
NextStream ==
    \/ \E admin \in BOOLEAN : PasswordSubmit(admin)
    \/ RateLimitInitialized
    \/ handleGenerate
    \/ \E lines \in ReadLines, partial \in ReadLines : StreamRead(lines, partial)
    \/ StreamEnd
    \/ RequestFailed
    \/ handleStopGeneration

SpecStream == Init /\ [][NextStream]_vars

IsChunkLine(l) == l.k = "data" /\ l.text # << >>

\* C4: the callbacks of one read are one onChunk per data line with a
\* non-empty text, in order, each with the accumulated text of the one before
\* (or of the session so far) extended by its chunk; empty chunks, malformed
\* and other lines call nothing and leave the accumulated text alone; and
\* onComplete gets the accumulated text as the last onChunk left it.
C4_AccumulatedGrows ==
    [][/\ lastOp' = "read" =>
            LET chunks == SelectSeq(readLines', IsChunkLine)
            IN /\ Len(calls') = Len(chunks)
               /\ \A i \in 1..Len(calls') :
                     /\ calls'[i].cb = "onChunk"
                     /\ calls'[i].chunk = chunks[i].text
                     /\ calls'[i].chunk # << >>
                     /\ calls'[i].text =
                            (IF i = 1 THEN gen.fullText ELSE calls'[i - 1].text)
                                \o calls'[i].chunk
               /\ gen'.fullText = IF calls' = << >> THEN gen.fullText
                                  ELSE calls'[Len(calls')].text
       /\ lastOp' = "streamEnd" =>
            /\ Len(calls') = 1
            /\ calls'[1].cb = "onComplete"
            /\ calls'[1].text = gen.fullText]_vars

\* a read of two lines, one of them skipped, extended a text already begun
C4_Witness ==
    /\ lastOp = "read"
    /\ Len(readLines) = 2
    /\ Len(calls) = 1
    /\ Len(gen.fullText) >= 2

\* ------------------------------------------------------------ the history alone
\* StorageModule's history operations in any order, with any content
HistoryContents == {<<"a">>, <<"a", "a">>}

\* a call of a history operation: its argument, and the stacks it found
HistoryCall(op, content, h) ==
    [req |-> "history", cb |-> op, content |-> content, undoLength |-> Len(h.undo),
     redoLength |-> Len(h.redo), top |-> undoResult(h)]

clearHistory(h) == History(<< >>, << >>)

historyVars == <<surfaceVars, accountVars, state, ui, streamingToggle, timers, sessionVars,
                 readLines, fmt, novelVars>>

HistoryPush(content) ==
    /\ history' = pushHistory(history, content)
    /\ lastOp' = "pushHistory"
    /\ calls' = <<HistoryCall("pushHistory", content, history)>>
    /\ UNCHANGED <<steps, historyVars>>

HistoryUndo(currentContent) ==
    /\ steps < MaxHistorySteps
    /\ steps' = steps + 1
    /\ history' = undo(history, currentContent)
    /\ lastOp' = "undo"
    /\ calls' = <<HistoryCall("undo", currentContent, history)>>
    /\ UNCHANGED historyVars

HistoryRedo(currentContent) ==
    /\ steps < MaxHistorySteps
    /\ steps' = steps + 1
    /\ history' = redo(history, currentContent)
    /\ lastOp' = "redo"
    /\ calls' = <<HistoryCall("redo", currentContent, history)>>
    /\ UNCHANGED historyVars

HistoryClear ==
    /\ steps < MaxHistorySteps
    /\ steps' = steps + 1
    /\ history' = clearHistory(history)
    /\ lastOp' = "clearHistory"
    /\ calls' = <<HistoryCall("clearHistory", << >>, history)>>
    /\ UNCHANGED historyVars

\* undo(c) returns p, and redo(p) is called at once: what the second call
\* returned, and the stacks the pair found
RoundTripCall(op, content, h, returned) ==
    [req |-> "history", cb |-> op, content |-> content, undoLength |-> Len(h.undo),
     redoLength |-> Len(h.redo), top |-> undoResult(h), returned |-> returned]

HistoryUndoRedo(c) ==
    /\ steps < MaxHistorySteps
    /\ steps' = steps + 1
    /\ Len(history.undo) > 0
    /\ LET p == undoResult(history)
           undone == undo(history, c)
       IN /\ history' = redo(undone, p)
          /\ calls' = <<RoundTripCall("undoRedo", c, history, redoResult(undone))>>
    /\ lastOp' = "undoRedo"
    /\ UNCHANGED historyVars

\* redo(c) returns n, and undo(n) is called at once
HistoryRedoUndo(c) ==
    /\ steps < MaxHistorySteps
    /\ steps' = steps + 1
    /\ Len(history.redo) > 0
    /\ LET n == redoResult(history)
           redone == redo(history, c)
       IN /\ history' = undo(redone, n)
          /\ calls' = <<RoundTripCall("redoUndo", c, history, undoResult(redone))>>
    /\ lastOp' = "redoUndo"
    /\ UNCHANGED historyVars

NextHistory ==
    \/ \E content \in HistoryContents : HistoryPush(content)
    \/ \E content \in HistoryContents : HistoryUndo(content)
    \/ \E content \in HistoryContents : HistoryRedo(content)
    \/ HistoryClear
    \/ \E content \in HistoryContents : HistoryUndoRedo(content)
    \/ \E content \in HistoryContents : HistoryRedoUndo(content)

SpecHistory == Init /\ [][NextHistory]_vars

\* C14 as stated: after every call of pushHistory the redo stack is empty.
C14_PushClearsRedo ==
    lastOp = "pushHistory" => history.redo = << >>

\* C14 as the code has it: a call of pushHistory whose content differs from
\* the newest undo snapshot (or that finds the undo stack empty) leaves the
\* redo stack empty; a call with the content of the newest undo snapshot
\* changes neither stack.
C14_PushClearsRedoUnlessSame ==
    [][lastOp' = "pushHistory" =>
          IF calls'[1].top = calls'[1].content
          THEN history' = history
          ELSE history'.redo = << >> /\ history'.undo # << >>
                  /\ history'.undo[Len(history'.undo)] = calls'[1].content]_vars

\* a push of new content found the redo stack filled and emptied it
C14_Witness ==
    /\ lastOp = "pushHistory"
    /\ LastCall.redoLength > 0
    /\ LastCall.top # LastCall.content
    /\ history.redo = << >>

\* C15: neither stack ever holds more than MAX_HISTORY_SIZE snapshots (nor do
\* the two together), and a push on a full undo stack evicts the oldest
\* snapshot: the others move down by one and the new content is the newest.
C15_HistoryBounded ==
    [][/\ Len(history'.undo) <= MAX_HISTORY_SIZE
       /\ Len(history'.redo) <= MAX_HISTORY_SIZE
       /\ Len(history'.undo) + Len(history'.redo) <= MAX_HISTORY_SIZE
       /\ (lastOp' = "pushHistory" /\ Len(history.undo) = MAX_HISTORY_SIZE
              /\ calls'[1].top # calls'[1].content)
             => history'.undo = Append(Tail(history.undo), calls'[1].content)]_vars

\* a push of new content found the undo stack full
C15_Witness ==
    /\ lastOp = "pushHistory"
    /\ LastCall.undoLength = MAX_HISTORY_SIZE
    /\ LastCall.top # LastCall.content
    /\ Len(history.undo) = MAX_HISTORY_SIZE

\* C32: on a non-empty undo stack, undo(c) followed at once by redo of what
\* it returned gives back c and leaves both stacks as they were; on a
\* non-empty redo stack the same holds for redo(c) followed by undo.
C32_UndoRedoRoundTrip ==
    [][lastOp' \in {"undoRedo", "redoUndo"} =>
          /\ calls'[1].returned = calls'[1].content
          /\ history' = history]_vars

\* an undo and the redo of its result ran on stacks that both held snapshots
C32_Witness ==
    /\ lastOp = "undoRedo"
    /\ LastCall.undoLength > 0
    /\ LastCall.redoLength > 0
    /\ LastCall.returned = LastCall.content

\* ------------------------------------------------------------ the cleanup alone
\* GeminiModule of part_000: stripPrefill, ensureProperEnding and the
\* response handling of its generateWithoutStreaming, each on arbitrary texts
StripAlphabet == {"a", "b", SP}
EndingAlphabet == {"a", PERIOD, BANG, COMMA, DQ, SQ, SP}
ProviderAlphabet == {"a", PERIOD, SP}

RECURSIVE Repeat(_, _)
Repeat(c, n) == IF n = 0 THEN << >> ELSE <<c>> \o Repeat(c, n - 1)

\* texts longer than OVERLAP_LIMIT: a prefill whose last 51 characters begin
\* the generated text, and a prefill of 51 characters that begins it
StripSamples ==
    {[generated |-> Append(Repeat("a", OVERLAP_LIMIT + 1), "b"),
      prefill |-> <<"b">> \o Repeat("a", OVERLAP_LIMIT + 1)],
     [generated |-> Append(Repeat("a", OVERLAP_LIMIT + 1), "b"),
      prefill |-> Repeat("a", OVERLAP_LIMIT + 1)]}

StripInputs ==
    {[generated |-> g, prefill |-> p] :
        g \in SeqsUpTo(StripAlphabet, MaxCleanLen), p \in SeqsUpTo(StripAlphabet, MaxPrefillLen)}
      \cup StripSamples

CleanupCall(cb, generated, prefill, result) ==
    [req |-> "cleanup", cb |-> cb, generated |-> generated, prefill |-> prefill,
     text |-> result]

cleanupVars == <<surfaceVars, accountVars, state, ui, streamingToggle, history, timers,
                 sessionVars, steps, readLines, fmt, novelVars>>

CallStripPrefill(in) ==
    /\ lastOp = "init"
    /\ lastOp' = "stripPrefill"
    /\ calls' = <<CleanupCall("stripPrefill", in.generated, in.prefill,
                              stripPrefill(in.generated, in.prefill))>>
    /\ UNCHANGED cleanupVars

CallEnsureProperEnding(text) ==
    /\ lastOp = "init"
    /\ lastOp' = "ensureProperEnding"
    /\ calls' = <<CleanupCall("ensureProperEnding", text, << >>, ensureProperEnding(text))>>
    /\ UNCHANGED cleanupVars

\* generateWithoutStreaming of part_000 from the parsed response body on:
\* text is what the provider returned
generateWithoutStreaming(text, prefill) ==
    /\ lastOp = "init"
    /\ lastOp' = "generateWithoutStreaming"
    /\ calls' = IF text = << >>
                THEN <<CleanupCall("onError", text, prefill, <<"EMPTY_RESPONSE">>)>>
                ELSE LET stripped == stripPrefill(text, prefill)
                     IN IF stripped = << >> \/ Len(trim(stripped)) = 0
                        THEN <<CleanupCall("onError", text, prefill, <<"EMPTY_RESPONSE">>)>>
                        ELSE <<CleanupCall("onComplete", text, prefill, stripped)>>
    /\ UNCHANGED cleanupVars

\* an error message is a sequence of words: the code the error was made
\* with, then, for an API_ERROR, the message the provider sent along
ApiErrorCodes ==
    {"API_ERROR_400", "API_ERROR_401", "API_ERROR_403", "API_ERROR_404", "API_ERROR_429",
     "API_ERROR_500", "API_ERROR_503"}
ErrorWords ==
    ApiErrorCodes \cup
    {"API_NOT_CONFIGURED", "INVALID_PASSWORD", "API_NOT_INITIALIZED", "GENERATION_CANCELLED",
     "IMAGE_GENERATION_CANCELLED", "EMPTY_RESPONSE", "NO_IMAGE_IN_RESPONSE", "Failed to fetch",
     "NetworkError", "text"}
ErrorMessages ==
    {<< >>} \cup {<<w>> : w \in ErrorWords}
            \cup {<<w, d>> : w \in ApiErrorCodes, d \in ErrorWords}
            \cup {<<w, d, e>> : w \in ApiErrorCodes, d \in ErrorWords, e \in ErrorWords}

\* a variant of includes that finds whole words only
includesWord(message, word) == \E i \in 1..Len(message) : message[i] = word

\* message.includes(word)
includes(message, word) ==
    \E i \in 1..Len(message) :
        \/ message[i] = word
        \/ word = "GENERATION_CANCELLED" /\ message[i] = "IMAGE_GENERATION_CANCELLED"

Classified(type, title, message) == [type |-> type, title |-> title, message |-> message]

\* classifyError(error) for an error with this message
classifyError(errorMessage) ==
    LET message == IF errorMessage = << >> THEN <<"unknown error">> ELSE errorMessage
    IN IF includes(message, "API_NOT_CONFIGURED")
       THEN Classified("error", "configuration error", <<"the API key is not configured">>)
       ELSE IF includes(message, "INVALID_PASSWORD")
       THEN Classified("error", "authentication failed", <<"the password is not correct">>)
       ELSE IF includes(message, "API_NOT_INITIALIZED")
       THEN Classified("error", "not authenticated", <<"unlock the application first">>)
       ELSE IF includes(message, "GENERATION_CANCELLED")
       THEN Classified("info", "generation stopped", <<"text generation was cancelled">>)
       ELSE IF includes(message, "EMPTY_RESPONSE")
       THEN Classified("warning", "empty response", <<"the AI generated no text">>)
       ELSE IF includes(message, "API_ERROR_400")
       THEN Classified("error", "bad request", <<"the request was malformed">>)
       ELSE IF includes(message, "API_ERROR_401") \/ includes(message, "API_ERROR_403")
       THEN Classified("error", "authentication error", <<"the API key is invalid or expired">>)
       ELSE IF includes(message, "API_ERROR_404")
       THEN Classified("error", "not found", <<"the model or endpoint was not found">>)
       ELSE IF includes(message, "API_ERROR_429")
       THEN Classified("warning", "rate limit", <<"too many requests">>)
       ELSE IF includes(message, "API_ERROR_500") \/ includes(message, "API_ERROR_503")
       THEN Classified("error", "server error", <<"the AI service is not available">>)
       ELSE IF includes(message, "Failed to fetch") \/ includes(message, "NetworkError")
       THEN Classified("error", "network error", <<"cannot connect to the AI service">>)
       ELSE Classified("error", "error", message)

CallClassifyError(message) ==
    /\ lastOp = "init"
    /\ lastOp' = "classifyError"
    /\ calls' = <<[req |-> "cleanup", cb |-> "classifyError", error |-> message,
                  result |-> classifyError(message)]>>
    /\ UNCHANGED cleanupVars

NextCleanup ==
    \/ lastOp = "init" /\ \E message \in ErrorMessages : CallClassifyError(message)
    \/ lastOp = "init" /\ \E in \in StripInputs : CallStripPrefill(in)
    \/ lastOp = "init"
          /\ \E text \in SeqsUpTo(EndingAlphabet, MaxCleanLen) : CallEnsureProperEnding(text)
    \/ lastOp = "init"
          /\ \E text \in SeqsUpTo(ProviderAlphabet, MaxPrefillLen),
                prefill \in SeqsUpTo(ProviderAlphabet, MaxPrefillLen - 1) :
                   generateWithoutStreaming(text, prefill)

SpecCleanup == Init /\ [][NextCleanup]_vars

\* C17: a text that the non-streaming path hands to onComplete ends on ".",
\* "!" or "?", optionally followed by a closing quote.
C17_CompleteEndsProperly ==
    (lastOp = "generateWithoutStreaming" /\ LastCall.cb = "onComplete")
        => properEndings(LastCall.text)

\* the overlaps of a prefill with a generated text: the lengths, up to
\* OVERLAP_LIMIT, of the suffixes of the one that begin the other
Overlaps(generated, prefill) ==
    {k \in 1..Min(Min(Len(prefill), Len(generated)), OVERLAP_LIMIT) :
        SubSeq(prefill, Len(prefill) - k + 1, Len(prefill)) = SubSeq(generated, 1, k)}

Largest(S) == CHOOSE k \in S : \A j \in S : j <= k

\* C18: stripPrefill takes the whole trimmed prefill off the start of the
\* left-trimmed generated text when it begins it; otherwise the longest
\* suffix of the prefill, of at most OVERLAP_LIMIT characters, that begins
\* it; what is left is left-trimmed.  Without any overlap, or with an empty
\* prefill, it returns the generated text as it came.
C18_StripPrefill ==
    lastOp = "stripPrefill" =>
        LET generated == LastCall.generated
            prefill == LastCall.prefill
            g == trimStart(generated)
            p == trim(prefill)
        IN IF prefill = << >> \/ generated = << >> THEN LastCall.text = generated
           ELSE IF startsWith(g, p)
           THEN LastCall.text = trimStart(SubSeq(g, Len(p) + 1, Len(g)))
           ELSE IF Overlaps(g, p) # {}
           THEN LastCall.text = trimStart(SubSeq(g, Largest(Overlaps(g, p)) + 1, Len(g)))
           ELSE LastCall.text = generated

\* the last 51 characters of the prefill begin the generated text: 50 are taken off
C18_Witness ==
    /\ lastOp = "stripPrefill"
    /\ Len(LastCall.prefill) = OVERLAP_LIMIT + 2
    /\ ~startsWith(LastCall.generated, LastCall.prefill)
    /\ Len(LastCall.generated) = OVERLAP_LIMIT + 2
    /\ LastCall.text = <<"a", "b">>

\* C19: for a text that ends in a soft separator, ensureProperEnding cuts
\* the text after its last ".", "!" or "?" (and a closing quote right behind
\* it) when that punctuation is at or past the midpoint of the text; when it
\* is before the midpoint, or there is none, a period is appended.
C19_BacktrackFromMidpoint ==
    (lastOp = "ensureProperEnding" /\ trim(LastCall.generated) # << >>
        /\ IsSoftSeparator(trim(LastCall.generated)[Len(trim(LastCall.generated))])) =>
        LET trimmed == trim(LastCall.generated)
            n == Len(trimmed)
            marks == {i \in 0..(n - 1) : IsTerminal(trimmed[i + 1])}
            last == Largest(marks)
            cut == IF IsQuote(trimmed[last + 2]) THEN last + 2 ELSE last + 1
        IN IF marks # {} /\ 2 * last >= n
           THEN LastCall.text = SubSeq(trimmed, 1, cut)
           ELSE startsWith(LastCall.text, Append(trimmed, PERIOD))

\* an error made on a cancellation: its code says so
IsCancellation(message) ==
    message # << >> /\ message[1] \in {"GENERATION_CANCELLED", "IMAGE_GENERATION_CANCELLED"}

Tok(c) == [c |-> c, n |-> 0]

\* escapeHtml of js/formatter.js on a string of tokens: &, < and > are
\* replaced, also those of an entity or of a tag that is part of the string
escapeHtml_formatter(h) ==
    [i \in 1..Len(h) |->
        IF h[i].n > 0 \/ h[i].c \in {"&", "<", ">"} \/ IsTag(h[i].c)
        THEN [h[i] EXCEPT !.n = @ + 1] ELSE h[i]]

\* index of the first token d after position i in h, 0 when there is none
NextTok(h, i, d) ==
    LET later == {j \in (i + 1)..Len(h) : h[j] = Tok(d)}
    IN IF later = {} THEN 0 ELSE CHOOSE j \in later : \A k \in later : j <= k

\* formatted.replace(/d([^d]+)d/g, <span class=...>d${escapeHtml($1)}d</span>);
\* the emphasis pass leaves the delimiters out
RECURSIVE ReplacePreview(_, _, _, _)
ReplacePreview(h, i, d, tag) ==
    IF i > Len(h) THEN << >>
    ELSE LET j == NextTok(h, i, d)
             quote == IF d = AST THEN << >> ELSE <<Tok(d)>>
         IN IF h[i] = Tok(d) /\ j > i + 1
            THEN <<Tok(tag)>> \o quote \o escapeHtml_formatter(SubSeq(h, i + 1, j - 1))
                     \o quote \o <<Tok(TagClose)>> \o ReplacePreview(h, j + 1, d, tag)
            ELSE <<h[i]>> \o ReplacePreview(h, i + 1, d, tag)

\* formatted.replace(/(<span class="(?:dialogue|thoughts|emphasis)"[^>]*>.*?<\/span>)|([^<]+)/g, ...):
\* a span up to the first </span> stays, a run without "<" is escaped, and a
\* "<" that begins no span is passed over (of a tag that is passed over, the
\* rest is part of the next run and its ">" is escaped)
RECURSIVE EscapeRemaining(_, _)
EscapeRemaining(h, i) ==
    IF i > Len(h) THEN << >>
    ELSE LET close == NextTok(h, i, TagClose)
         IN IF h[i] \in {Tok(TagDialogue), Tok(TagThoughts), Tok(TagEmphasis)} /\ close > 0
            THEN SubSeq(h, i, close) \o EscapeRemaining(h, close + 1)
            ELSE IF h[i] = Tok(LT) THEN <<h[i]>> \o EscapeRemaining(h, i + 1)
            ELSE escapeHtml_formatter(<<h[i]>>) \o EscapeRemaining(h, i + 1)

formatText(text) ==
    IF text = << >> \/ TrimEmpty(text) THEN << >>
    ELSE LET paragraph == [i \in 1..Len(text) |-> Tok(text[i])]
             dialogue == ReplacePreview(paragraph, 1, DQ, TagDialogue)
             thoughts == ReplacePreview(dialogue, 1, SQ, TagThoughts)
             emphasis == ReplacePreview(thoughts, 1, AST, TagEmphasis)
         IN <<Tok("<p>")>> \o EscapeRemaining(emphasis, 1) \o <<Tok("</p>")>>

PreviewAlphabet == {"a", LT, ">", "&", DQ, SQ, AST}

CallFormatText(text) ==
    /\ lastOp = "init"
    /\ lastOp' = "formatText"
    /\ calls' = <<[req |-> "preview", cb |-> "formatText", text |-> text,
                  html |-> formatText(text)]>>
    /\ UNCHANGED cleanupVars

NextPreview ==
    lastOp = "init" /\ \E text \in SeqsUpTo(PreviewAlphabet, MaxCleanLen) : CallFormatText(text)

SpecPreview == Init /\ [][NextPreview]_vars

\* C24: the HTML that formatText returns holds every "<", ">" and "&" of
\* the text in escaped form, inside a span and outside.
C24_PreviewEscapesText ==
    lastOp = "formatText" =>
        \A i \in 1..Len(LastCall.html) :
            LastCall.html[i].c \in {LT, ">", "&"} => LastCall.html[i].n >= 1


\* ------------------------------------------------------------ the novel writer
\* NovelWriter (part_006) driven by the page of app.js: handleWrite,
\* handleUndo and handleClear, the SSE stream of generateContent, and abort()
HISTORY_LIMIT == 10

NovelTyped == {"a", SP}
NovelTexts == {<<"b">>, <<"c", "c">>}

protectContent(nw, content) ==
    [nw EXCEPT !.protectedContent = content, !.currentContent = content]

addToHistory(nw, content) ==
    LET pushed == Append(nw.history, content)
    IN [nw EXCEPT !.history = IF Len(pushed) > HISTORY_LIMIT THEN Tail(pushed) ELSE pushed]

\* what NovelWriter.undo() returns, NoContent for null
undoReturn_part006(nw) ==
    IF Len(nw.history) > 1 THEN nw.history[Len(nw.history) - 1] ELSE NoContent

undo_part006(nw) ==
    IF Len(nw.history) > 1
    THEN [nw EXCEPT !.history = SubSeq(nw.history, 1, Len(nw.history) - 1)]
    ELSE nw

\* a callback of handleWrite, or the return of undo(), as the last step made it
NovelCall(cb, text, nw) ==
    [req |-> "novel", cb |-> cb, text |-> text, historyLength |-> Len(nw.history),
     protectedContent |-> nw.protectedContent]

novelRest == <<editor, sel, apiKey, appShown, rlInit, rl, stored, state, ui, streamingToggle,
               history, timers, currentController, gen, imgOrphans, readLines, fmt>>

NovelStep(op) ==
    /\ steps < MaxNovelSteps
    /\ steps' = steps + 1
    /\ lastOp' = op
    /\ UNCHANGED novelRest

\* the finally block of generateContent
NovelFinally(nw) == [nw EXCEPT !.isWriting = FALSE, !.abortController = "null"]

\* the page once a handleWrite call is over
NovelIdle(page) ==
    [page EXCEPT !.pc = "idle", !.currentContent = << >>, !.newText = << >>,
                 !.generatedText = << >>, !.pending = << >>]

\* the user types the key into elements.apiKey
NovelKey ==
    /\ ~novelPage.apiKey
    /\ novelPage' = [novelPage EXCEPT !.apiKey = TRUE]
    /\ calls' = << >>
    /\ NovelStep("apiKey")
    /\ UNCHANGED novelWriter

\* the user types at the end of the editor while nothing is being written
NovelInput(c) ==
    /\ novelPage.pc = "idle"
    /\ Len(novelPage.novelEditor) < MaxNovelLen
    /\ novelPage' = [novelPage EXCEPT !.novelEditor = Append(@, c)]
    /\ calls' = << >>
    /\ NovelStep("input")
    /\ UNCHANGED novelWriter

\* handleWrite up to the await of fetch inside generateContent
handleWrite ==
    /\ ~novelPage.writeBtnDisabled
    /\ NovelStep("handleWrite")
    /\ LET currentContent == trim(novelPage.novelEditor)
       IN IF ~novelPage.apiKey
          THEN calls' = << >> /\ UNCHANGED novelVars
          ELSE IF currentContent = << >>
          THEN /\ novelWriter' = [novelWriter EXCEPT !.apiKey = TRUE]
               /\ calls' = << >>
               /\ UNCHANGED novelPage
          ELSE IF novelWriter.isWriting
          THEN /\ novelWriter' = [novelWriter EXCEPT !.apiKey = TRUE]
               /\ calls' = <<NovelCall("onError", << >>, novelWriter)>>
               /\ novelPage' = [novelPage EXCEPT !.writeBtnDisabled = FALSE]
          ELSE /\ novelWriter' = protectContent([novelWriter EXCEPT !.apiKey = TRUE,
                                                                    !.isWriting = TRUE,
                                                                    !.abortController = "live"],
                                                currentContent)
               /\ novelPage' = [novelPage EXCEPT !.writeBtnDisabled = TRUE, !.pc = "fetch",
                                                 !.currentContent = currentContent,
                                                 !.newText = << >>,
                                                 !.generatedText = << >>,
                                                 !.pending = << >>]
               /\ calls' = << >>

\* fetch resolves with response.ok
NovelResponse ==
    /\ novelPage.pc = "fetch"
    /\ novelWriter.abortController = "live"
    /\ novelPage' = [novelPage EXCEPT !.pc = "stream"]
    /\ calls' = << >>
    /\ NovelStep("response")
    /\ UNCHANGED novelWriter

\* fetch rejects, response.ok is false or reader.read() rejects: the catch
\* block calls onError, the finally block runs
NovelFailed ==
    /\ novelPage.pc \in {"fetch", "stream"}
    /\ novelPage.pending = << >>
    /\ novelWriter.abortController = "live"
    /\ calls' = <<NovelCall("onError", << >>, novelWriter)>>
    /\ novelWriter' = NovelFinally(novelWriter)
    /\ novelPage' = NovelIdle([novelPage EXCEPT !.writeBtnDisabled = FALSE])
    /\ NovelStep("failed")

\* reader.read() delivers a data line with a text: generatedText = text,
\* and the characters of the text wait to be streamed
NovelRead(text) ==
    /\ novelPage.pc = "stream"
    /\ novelPage.pending = << >>
    /\ novelWriter.abortController = "live"
    /\ Len(novelPage.currentContent) + Len(novelPage.newText) + Len(text) <= MaxNovelDoc
    /\ novelPage' = [novelPage EXCEPT !.generatedText = text, !.pending = text]
    /\ calls' = << >>
    /\ NovelStep("read")
    /\ UNCHANGED novelWriter

\* onChunk(text[i]) and the STREAM_DELAY timeout after it
NovelChunk ==
    /\ novelPage.pc = "stream"
    /\ novelPage.pending # << >>
    /\ novelWriter.abortController = "live"
    /\ LET chunk == <<Head(novelPage.pending)>>
           newText == novelPage.newText \o chunk
       IN /\ novelPage' = [novelPage EXCEPT !.newText = newText,
                                            !.novelEditor = novelPage.currentContent \o newText,
                                            !.pending = Tail(@)]
          /\ calls' = <<NovelCall("onChunk", chunk, novelWriter)>>
    /\ NovelStep("onChunk")
    /\ UNCHANGED novelWriter

\* reader.read() reports done: the final content is stored, onComplete runs,
\* then the finally block
NovelDone ==
    /\ novelPage.pc = "stream"
    /\ novelPage.pending = << >>
    /\ novelWriter.abortController = "live"
    /\ LET finalContent == novelWriter.protectedContent \o novelPage.generatedText
       IN novelWriter' = NovelFinally(addToHistory(
                             [novelWriter EXCEPT !.currentContent = finalContent],
                             finalContent))
    /\ calls' = <<NovelCall("onComplete", novelPage.generatedText, novelWriter)>>
    /\ novelPage' = NovelIdle([novelPage EXCEPT !.writeBtnDisabled = FALSE])
    /\ NovelStep("done")

\* NovelWriter.abort()
abort ==
    /\ novelWriter.abortController = "live"
    /\ novelWriter' = [novelWriter EXCEPT !.abortController = "aborted"]
    /\ calls' = << >>
    /\ NovelStep("abort")
    /\ UNCHANGED novelPage

\* the pending fetch or read rejects with an AbortError (the character loop
\* breaks first): the catch block only logs, the finally block runs
NovelAborted ==
    /\ novelPage.pc \in {"fetch", "stream"}
    /\ novelWriter.abortController = "aborted"
    /\ novelWriter' = NovelFinally(novelWriter)
    /\ novelPage' = NovelIdle(novelPage)
    /\ calls' = << >>
    /\ NovelStep("aborted")

handleUndo_app ==
    /\ LET previousContent == undoReturn_part006(novelWriter)
       IN /\ novelPage' = IF previousContent # NoContent
                          THEN [novelPage EXCEPT !.novelEditor = previousContent]
                          ELSE novelPage
          /\ calls' = <<NovelCall("undo", previousContent, novelWriter)>>
    /\ novelWriter' = undo_part006(novelWriter)
    /\ NovelStep("handleUndo_app")

\* handleClear, confirmed
handleClear ==
    /\ novelPage' = [novelPage EXCEPT !.novelEditor = << >>]
    /\ novelWriter' = [novelWriter EXCEPT !.history = << >>]
    /\ calls' = << >>
    /\ NovelStep("handleClear")

NextNovel ==
    \/ NovelKey
    \/ \E c \in NovelTyped : NovelInput(c)
    \/ handleWrite
    \/ NovelResponse
    \/ NovelFailed
    \/ \E text \in NovelTexts : NovelRead(text)
    \/ NovelChunk
    \/ NovelDone
    \/ abort
    \/ NovelAborted
    \/ handleUndo_app
    \/ handleClear

SpecNovel == Init /\ [][NextNovel]_vars

\* C33: when generateContent completes, the content appended to the history
\* and stored as currentContent is the protected content followed by all the
\* text streamed to onChunk in the session, and it is what the editor shows.
C33_FinalContentIsStreamed ==
    [][lastOp' = "done" =>
          LET finalContent == novelWriter'.history[Len(novelWriter'.history)]
          IN /\ finalContent = novelWriter'.currentContent
             /\ finalContent = novelWriter.protectedContent \o novelPage.newText
             /\ finalContent = novelPage'.novelEditor]_vars

\* C34: an undo right after a completed generation returns the content from
\* before that generation, and undo returns null only when the history holds
\* no generation.
C34_UndoReturnsPrevious ==
    [][lastOp' = "handleUndo_app" =>
          /\ lastOp = "done" => calls'[1].text = novelWriter.protectedContent
          /\ calls'[1].text = NoContent => novelWriter.history = << >>]_vars

\* C35: a generateContent call that resets isWriting has invoked onComplete
\* or onError in the same step and left the write button enabled; a call
\* made while isWriting is true invokes onError and changes neither
\* isWriting nor the history nor the protected content.
C35_WriteAlwaysReported ==
    [][/\ (novelWriter.isWriting /\ ~novelWriter'.isWriting) =>
             /\ calls' # << >>
             /\ calls'[Len(calls')].cb \in {"onComplete", "onError"}
             /\ ~novelPage'.writeBtnDisabled
       /\ (lastOp' = "handleWrite" /\ novelWriter.isWriting) =>
             /\ calls' # << >> /\ calls'[1].cb = "onError"
             /\ novelWriter'.isWriting
             /\ novelWriter'.history = novelWriter.history
             /\ novelWriter'.protectedContent = novelWriter.protectedContent]_vars


\* ------------------------------------------------------------ the settings alone
\* StorageModule's settings and formatting operations on arbitrary objects and
\* arbitrary stored items.  A JavaScript value is a record [k, v]: k is its
\* kind and v holds its own enumerable properties; a property value is
\* written as its source literal.
DEFAULT_SETTINGS ==
    [model |-> "'gemini-1.5-pro'", temperature |-> "0.8", maxWords |-> "150",
     paragraphLength |-> "'medium'", language |-> "'EN'", genre |-> "'fantasy'",
     style |-> "'descriptive'", tone |-> "'neutral'", pov |-> "'third-limited'",
     streaming |-> "true"]

DEFAULT_FORMATTING ==
    [fontFamily |-> "'Merriweather', serif", fontSize |-> "18", lineHeight |-> "1.8",
     paragraphSpacing |-> "1.5", dialogueColor |-> "'#e67e22'",
     thoughtsColor |-> "'#3498db'", emphasisColor |-> "'#9b59b6'",
     textColor |-> "'#2c3e50'", bgColor |-> "'#fdf6e3'"]

NoProps == [key \in {} |-> "undefined"]

Value(k, v) == [k |-> k, v |-> v]
Threw == Value("threw", NoProps)

\* { ...a, ...b } on the properties of two values
Spread(a, b) ==
    [key \in DOMAIN a \cup DOMAIN b |-> IF key \in DOMAIN b THEN b[key] ELSE a[key]]

\* JSON.stringify of an object: a property whose value is undefined is left
\* out, NaN and Infinity are written as null
JSON_stringify(obj) ==
    Value("json",
          [key \in {x \in DOMAIN obj : obj[x] # "undefined"} |->
              IF obj[key] \in {"NaN", "Infinity"} THEN "null" ELSE obj[key]])

safeJsonStringify(obj) == JSON_stringify(obj)

\* JSON.parse of a stored item: an object, another JSON value, or a SyntaxError
JSON_parse(json) ==
    CASE json.k = "json" -> Value("object", json.v)
      [] json.k = "jsonString" -> Value("string", json.v)
      [] json.k = "jsonArray" -> Value("array", json.v)
      [] json.k \in {"jsonNull", "jsonNumber"} -> Value("other", NoProps)
      [] OTHER -> Threw

\* a variant of safeJsonParse without the catch block
safeJsonParseThrows(json, defaultValue) ==
    IF json.k \in {"null", "empty"} THEN defaultValue ELSE JSON_parse(json)

\* json ? JSON.parse(json) : defaultValue, inside try and catch
safeJsonParse(json, defaultValue) ==
    IF json.k \in {"null", "empty"} THEN defaultValue
    ELSE IF JSON_parse(json) = Threw THEN defaultValue
    ELSE JSON_parse(json)

\* the item that saveSettings writes
saveSettings(settings) == safeJsonStringify(Spread(DEFAULT_SETTINGS, settings))

loadSettings(data) ==
    LET saved == safeJsonParse(data, Value("object", NoProps))
    IN IF saved = Threw THEN Threw
       ELSE Value("object", Spread(DEFAULT_SETTINGS, saved.v))

saveFormatting(formatting) == safeJsonStringify(Spread(DEFAULT_FORMATTING, formatting))

loadFormatting(data) ==
    LET saved == safeJsonParse(data, Value("object", NoProps))
    IN IF saved = Threw THEN Threw
       ELSE Value("object", Spread(DEFAULT_FORMATTING, saved.v))

SettingsValues == {"'x'", "0.5", "false", "null", "undefined", "NaN"}

ObjectsOver(keys) ==
    UNION {[d -> SettingsValues] : d \in {x \in SUBSET keys : Cardinality(x) <= MaxSettingsKeys}}

SettingsObjects == ObjectsOver({"model", "temperature", "streaming", "extra"})
FormattingObjects == ObjectsOver({"fontSize", "textColor", "extra"})

\* what localStorage.getItem can return: null, an empty string, a text that is
\* no JSON, the JSON of a string, an array, null or a number, and the JSON of
\* an object
StoredItems(objects) ==
    {Value(k, NoProps) : k \in {"null", "empty", "malformed", "jsonNull", "jsonNumber"}}
      \cup {Value(k, [key \in {"0"} |-> "'x'"]) : k \in {"jsonString", "jsonArray"}}
      \cup {JSON_stringify(obj) : obj \in objects}

SettingsCall(cb, defaults, settings, data, loaded) ==
    [req |-> "settings", cb |-> cb, defaults |-> defaults, settings |-> settings,
     data |-> data, loaded |-> loaded]

CallLoadSettings(data) ==
    /\ lastOp' = "loadSettings"
    /\ calls' = <<SettingsCall("load", DEFAULT_SETTINGS, NoProps, data, loadSettings(data))>>
    /\ UNCHANGED cleanupVars

CallLoadFormatting(data) ==
    /\ lastOp' = "loadFormatting"
    /\ calls' = <<SettingsCall("load", DEFAULT_FORMATTING, NoProps, data,
                               loadFormatting(data))>>
    /\ UNCHANGED cleanupVars

\* saveSettings(settings), and the next loadSettings
CallSaveSettings(settings) ==
    /\ lastOp' = "saveSettings"
    /\ \E data \in {saveSettings(settings)} :
          calls' = <<SettingsCall("save", DEFAULT_SETTINGS, settings, data,
                                  loadSettings(data))>>
    /\ UNCHANGED cleanupVars

CallSaveFormatting(formatting) ==
    /\ lastOp' = "saveFormatting"
    /\ \E data \in {saveFormatting(formatting)} :
          calls' = <<SettingsCall("save", DEFAULT_FORMATTING, formatting, data,
                                  loadFormatting(data))>>
    /\ UNCHANGED cleanupVars

NextSettings ==
    \/ lastOp = "init" /\ \E data \in StoredItems(SettingsObjects) : CallLoadSettings(data)
    \/ lastOp = "init" /\ \E data \in StoredItems(FormattingObjects) : CallLoadFormatting(data)
    \/ lastOp = "init" /\ \E settings \in SettingsObjects : CallSaveSettings(settings)
    \/ lastOp = "init" /\ \E formatting \in FormattingObjects : CallSaveFormatting(formatting)

SpecSettings == Init /\ [][NextSettings]_vars

\* every load returned an object that holds every default key
LoadsComplete ==
    /\ LastCall.loaded # Threw
    /\ DOMAIN LastCall.defaults \subseteq DOMAIN LastCall.loaded.v

\* C37 as stated: loadSettings and loadFormatting never throw and return an
\* object with every default key, for any stored item; and every value of an
\* object written by saveSettings or saveFormatting is returned by the next load.
C37_SettingsRoundTrip ==
    (calls # << >> /\ LastCall.req = "settings") =>
        /\ LoadsComplete
        /\ LastCall.cb = "save" =>
              \A key \in DOMAIN LastCall.settings :
                  /\ key \in DOMAIN LastCall.loaded.v
                  /\ LastCall.loaded.v[key] = LastCall.settings[key]

\* C37 as the code has it: the loads never throw and return every default
\* key; a value written by a save comes back from the next load as it was,
\* except that NaN comes back as null and an undefined value comes back as
\* the default of its key, or not at all when the key has no default; every
\* key the saved object does not hold comes back with its default.
C37_SettingsRoundTripJson ==
    (calls # << >> /\ LastCall.req = "settings") =>
        /\ LoadsComplete
        /\ LastCall.cb = "save" =>
              /\ DOMAIN LastCall.loaded.v =
                    DOMAIN LastCall.defaults
                       \cup {key \in DOMAIN LastCall.settings :
                                LastCall.settings[key] # "undefined"}
              /\ \A key \in DOMAIN LastCall.loaded.v :
                    LastCall.loaded.v[key] =
                        IF key \notin DOMAIN LastCall.settings
                              \/ LastCall.settings[key] = "undefined"
                        THEN LastCall.defaults[key]
                        ELSE IF LastCall.settings[key] = "NaN" THEN "null"
                        ELSE LastCall.settings[key]

\* a settings object with a changed model and an unknown key was saved and loaded
C37_Witness ==
    /\ lastOp = "saveSettings"
    /\ DOMAIN LastCall.settings = {"model", "extra"}
    /\ LastCall.settings["model"] = "'x'"
    /\ LastCall.loaded.v["model"] = "'x'"
    /\ LastCall.loaded.v["streaming"] = "true"

====
